---------------------------- MODULE Spec2Model ----------------------------
(***************************************************************************)
(* Klondike solitaire game model (Solitaire) and depth-first solver        *)
(* (Solver) of rfotino/solitaire-cpp.                                      *)
(*                                                                         *)
(* A Card(suit, rank) is encoded as the integer suit * NUM_RANKS + rank,   *)
(* so that Card::operator< (suit-major, then rank) is integer order.       *)
(* Arrays of the program are functions over 0-based index ranges; the      *)
(* face-down and face-up arrays of a column, which the constructor does    *)
(* not initialise beyond their size counters, are sequences holding the    *)
(* live cards only (faceUpSize is Len(faceUp)).                            *)
(***************************************************************************)
EXTENDS Integers, Sequences, FiniteSets, TLC

(***************************************************************************)
(* Program constants                                                       *)
(***************************************************************************)
SPADES == 0
HEARTS == 1
DIAMONDS == 2
CLUBS == 3
NUM_SUITS == 4
NUM_RANKS == 13
NUM_CARDS == NUM_RANKS * NUM_SUITS
NUM_MOVE_EXTRAS == 3
TABLEAU_SIZE == 7
MAX_HAND_SIZE == 24

DRAW == "DRAW"
WASTE_TO_FOUNDATION == "WASTE_TO_FOUNDATION"
WASTE_TO_TABLEAU == "WASTE_TO_TABLEAU"
TABLEAU_TO_FOUNDATION == "TABLEAU_TO_FOUNDATION"
TABLEAU_TO_TABLEAU == "TABLEAU_TO_TABLEAU"

MoveType ==
  {DRAW, WASTE_TO_FOUNDATION, WASTE_TO_TABLEAU, TABLEAU_TO_FOUNDATION,
   TABLEAU_TO_TABLEAU}

Columns == 0 .. (TABLEAU_SIZE - 1)

Suits == 0 .. (NUM_SUITS - 1)

(***************************************************************************)
(* Card, Move                                                              *)
(***************************************************************************)
Card(s, r) == s * NUM_RANKS + r

suit(c) == c \div NUM_RANKS

rank(c) == c % NUM_RANKS

Move(type, e0, e1, e2) == [type |-> type, extras |-> <<e0, e1, e2>>]

\* extras()[i] with the 0-based index of the program
Extra(move, i) == move.extras[i + 1]

isBlack(c) == suit(c) = SPADES \/ suit(c) = CLUBS

areDifferentColors(c1, c2) == isBlack(c1) # isBlack(c2)

(***************************************************************************)
(* Small helpers on sequences and numbers                                  *)
(***************************************************************************)
Min(a, b) == IF a < b THEN a ELSE b

Last(s) == s[Len(s)]

Front(s) == SubSeq(s, 1, Len(s) - 1)

\* the elements s[from + 1 .. Len(s)]: the suffix that starts at 0-based row from
Suffix(s, from) == SubSeq(s, from + 1, Len(s))

Range(s) == {s[i] : i \in DOMAIN s}

(***************************************************************************)
(* Solitaire::Solitaire(deck, drawSize)                                    *)
(***************************************************************************)
\* a faulty variant of DealtBefore: the deal runs column by column
DealtBeforeByColumn(row, column) == ((column * (column + 1)) \div 2) + row

\* a faulty variant of DealtBefore: every row is counted as a full row
DealtBeforeFullRows(row, column) == row * TABLEAU_SIZE + (column - row)

\* number of cards dealt before the one put on (row, column): the deal runs
\* row by row, each row over the columns row .. TABLEAU_SIZE - 1
DealtBefore(row, column) ==
  row * TABLEAU_SIZE - ((row * (row - 1)) \div 2) + (column - row)

\* the card the deal puts on (row, column): cards are taken from the deck's end
DealtCard(deck, row, column) == deck[NUM_CARDS - 1 - DealtBefore(row, column)]

\* a faulty variant of NewSolitaire: the card of row = column is pushed onto
\* the face-down cards as well
NewSolitaireFaceDown(deck, drawSize) ==
  [drawSize   |-> drawSize,
   foundation |-> [s \in Suits |-> -1],
   hand       |-> [i \in 0 .. (MAX_HAND_SIZE - 1) |-> deck[i]],
   handSize   |-> MAX_HAND_SIZE,
   wasteSize  |-> 0,
   tableau    |-> [column \in Columns |->
                    [faceDown |-> [row \in 1 .. column + 1 |->
                                     DealtCard(deck, row - 1, column)],
                     faceUp   |-> <<DealtCard(deck, column, column)>>]]]

NewSolitaire(deck, drawSize) ==
  [drawSize   |-> drawSize,
   foundation |-> [s \in Suits |-> -1],
   hand       |-> [i \in 0 .. (MAX_HAND_SIZE - 1) |-> deck[i]],
   handSize   |-> MAX_HAND_SIZE,
   wasteSize  |-> 0,
   tableau    |-> [column \in Columns |->
                    [faceDown |-> [row \in 1 .. column |->
                                     DealtCard(deck, row - 1, column)],
                     faceUp   |-> <<DealtCard(deck, column, column)>>]]]

(***************************************************************************)
(* Solitaire::isValid                                                      *)
(***************************************************************************)
\* a faulty variant of FitsOnColumn: any card may go to an empty column
FitsOnColumnAnyOnEmpty(game, srcCard, dstColIdx) ==
  LET column == game.tableau[dstColIdx] IN
    IF Len(column.faceUp) = 0
      THEN TRUE
      ELSE LET dstCard == Last(column.faceUp) IN
             /\ areDifferentColors(srcCard, dstCard)
             /\ rank(srcCard) = rank(dstCard) - 1

\* a faulty variant of FitsOnColumn: the colours are not compared
FitsOnColumnAnyColor(game, srcCard, dstColIdx) ==
  LET column == game.tableau[dstColIdx] IN
    IF Len(column.faceUp) = 0
      THEN rank(srcCard) = NUM_RANKS - 1
      ELSE rank(srcCard) = rank(Last(column.faceUp)) - 1

\* a faulty variant of FitsOnColumn: the ranks are not compared
FitsOnColumnAnyRank(game, srcCard, dstColIdx) ==
  LET column == game.tableau[dstColIdx] IN
    IF Len(column.faceUp) = 0
      THEN rank(srcCard) = NUM_RANKS - 1
      ELSE areDifferentColors(srcCard, Last(column.faceUp))

\* the shared tail of the two to-tableau cases: srcCard onto column dstColIdx
FitsOnColumn(game, srcCard, dstColIdx) ==
  LET column == game.tableau[dstColIdx] IN
    IF Len(column.faceUp) = 0
      THEN rank(srcCard) = NUM_RANKS - 1
      ELSE LET dstCard == Last(column.faceUp) IN
             /\ areDifferentColors(srcCard, dstCard)
             /\ rank(srcCard) = rank(dstCard) - 1

\* a faulty variant of WasteTop: the card at the end of the hand/waste array
WasteTopAtEnd(game) == game.hand[game.handSize - 1]

\* top card of the waste: _hand[_handSize - _wasteSize]
WasteTop(game) == game.hand[game.handSize - game.wasteSize]

\* a faulty variant of isValidDraw: only the cards not yet drawn count
isValidDrawFromHand(game) == game.handSize # game.wasteSize

isValidDraw(game) == game.handSize # 0

isValidWasteToFoundation(game) ==
  /\ game.wasteSize # 0
  /\ LET card == WasteTop(game) IN
       rank(card) = game.foundation[suit(card)] + 1

\* the extras test of case WASTE_TO_TABLEAU
WasteToTableauInRange(game, move) ==
  LET dstColIdx == Extra(move, 0) IN
    ~(game.wasteSize = 0 \/ dstColIdx < 0 \/ dstColIdx >= TABLEAU_SIZE)

isValidWasteToTableau(game, move) ==
  LET dstColIdx == Extra(move, 0) IN
    /\ WasteToTableauInRange(game, move)
    /\ FitsOnColumn(game, WasteTop(game), dstColIdx)

\* the extras test of case TABLEAU_TO_FOUNDATION, before the column is read
TableauToFoundationInRange(game, move) ==
  LET srcColIdx == Extra(move, 0) IN
    ~(srcColIdx < 0 \/ srcColIdx >= TABLEAU_SIZE)

\* a faulty variant of isValidTableauToFoundation: any higher rank passes
isValidTableauToFoundationAbove(game, move) ==
  LET srcColIdx == Extra(move, 0) IN
    /\ TableauToFoundationInRange(game, move)
    /\ Len(game.tableau[srcColIdx].faceUp) # 0
    /\ LET card == Last(game.tableau[srcColIdx].faceUp) IN
         rank(card) >= game.foundation[suit(card)] + 1

isValidTableauToFoundation(game, move) ==
  LET srcColIdx == Extra(move, 0) IN
    /\ TableauToFoundationInRange(game, move)
    /\ Len(game.tableau[srcColIdx].faceUp) # 0
    /\ LET card == Last(game.tableau[srcColIdx].faceUp) IN
         rank(card) = game.foundation[suit(card)] + 1

\* a faulty variant of TableauToTableauInRange: the row is not compared with
\* the size of the face-up stack
TableauToTableauInRangeNoSize(game, move) ==
  LET srcColIdx == Extra(move, 0)
      srcRowIdx == Extra(move, 1)
      dstColIdx == Extra(move, 2) IN
    /\ ~(srcColIdx < 0 \/ srcColIdx >= TABLEAU_SIZE)
    /\ ~(dstColIdx < 0 \/ dstColIdx >= TABLEAU_SIZE)
    /\ ~(srcRowIdx < 0)

\* the extras test of case TABLEAU_TO_TABLEAU
TableauToTableauInRange(game, move) ==
  LET srcColIdx == Extra(move, 0)
      srcRowIdx == Extra(move, 1)
      dstColIdx == Extra(move, 2) IN
    /\ ~(srcColIdx < 0 \/ srcColIdx >= TABLEAU_SIZE)
    /\ ~(dstColIdx < 0 \/ dstColIdx >= TABLEAU_SIZE)
    /\ ~(srcRowIdx < 0 \/ srcRowIdx >= Len(game.tableau[srcColIdx].faceUp))

isValidTableauToTableau(game, move) ==
  LET srcColIdx == Extra(move, 0)
      srcRowIdx == Extra(move, 1)
      dstColIdx == Extra(move, 2) IN
    /\ TableauToTableauInRange(game, move)
    /\ FitsOnColumn(game, game.tableau[srcColIdx].faceUp[srcRowIdx + 1],
                    dstColIdx)

\* an access to element index of an array of size elements
ArrayRead(array, index, size) == [array |-> array, index |-> index, size |-> size]

\* column.faceUp[column.faceUpSize - 1], read when the stack is not empty
TopRead(column) ==
  IF Len(column.faceUp) = 0 THEN {}
  ELSE {ArrayRead("faceUp", Len(column.faceUp) - 1, NUM_RANKS)}

\* the elements of _hand, _foundation, _tableau and faceUp that isValid reads
\* on its way to its return
isValidReads(game, move) ==
  LET wasteTop == ArrayRead("_hand", game.handSize - game.wasteSize, MAX_HAND_SIZE) IN
    CASE move.type = WASTE_TO_FOUNDATION ->
           IF game.wasteSize = 0 THEN {}
           ELSE {wasteTop, ArrayRead("_foundation", suit(WasteTop(game)), NUM_SUITS)}
      [] move.type = WASTE_TO_TABLEAU ->
           IF ~WasteToTableauInRange(game, move) THEN {}
           ELSE {ArrayRead("_tableau", Extra(move, 0), TABLEAU_SIZE), wasteTop}
                  \cup TopRead(game.tableau[Extra(move, 0)])
      [] move.type = TABLEAU_TO_FOUNDATION ->
           IF ~TableauToFoundationInRange(game, move) THEN {}
           ELSE LET column == game.tableau[Extra(move, 0)] IN
                  {ArrayRead("_tableau", Extra(move, 0), TABLEAU_SIZE)}
                    \cup TopRead(column)
                    \cup (IF Len(column.faceUp) = 0 THEN {}
                          ELSE {ArrayRead("_foundation",
                                          suit(Last(column.faceUp)), NUM_SUITS)})
      [] move.type = TABLEAU_TO_TABLEAU ->
           IF ~TableauToTableauInRange(game, move) THEN {}
           ELSE {ArrayRead("_tableau", Extra(move, 0), TABLEAU_SIZE),
                 ArrayRead("faceUp", Extra(move, 1), NUM_RANKS),
                 ArrayRead("_tableau", Extra(move, 2), TABLEAU_SIZE)}
                  \cup TopRead(game.tableau[Extra(move, 2)])
      [] OTHER -> {}

isValid(game, move) ==
  CASE move.type = DRAW -> isValidDraw(game)
    [] move.type = WASTE_TO_FOUNDATION -> isValidWasteToFoundation(game)
    [] move.type = WASTE_TO_TABLEAU -> isValidWasteToTableau(game, move)
    [] move.type = TABLEAU_TO_FOUNDATION -> isValidTableauToFoundation(game, move)
    [] move.type = TABLEAU_TO_TABLEAU -> isValidTableauToTableau(game, move)
    [] OTHER -> FALSE

(***************************************************************************)
(* Solitaire::apply                                                        *)
(***************************************************************************)
\* a faulty variant of RemoveWasteTop: the cards behind the gap stay put
RemoveWasteTopNoShift(game) == game.hand

\* the loop that closes the gap left by the waste's top card; the slot at
\* handSize - 1 keeps its old value
RemoveWasteTop(game) ==
  LET pos == game.handSize - game.wasteSize IN
    [i \in 0 .. (MAX_HAND_SIZE - 1) |->
       IF i >= pos /\ i < game.handSize - 1 THEN game.hand[i + 1]
                                            ELSE game.hand[i]]

\* a faulty variant of applyDraw: a recycling DRAW only empties the waste
applyDrawRecycleOnly(game) ==
  IF game.wasteSize = game.handSize
    THEN [game EXCEPT !.wasteSize = 0]
    ELSE [game EXCEPT !.wasteSize = Min(game.wasteSize + game.drawSize,
                                        game.handSize)]

\* a faulty variant of applyDraw: the draw is capped by the size of the array
applyDrawToCapacity(game) ==
  LET recycled == IF game.wasteSize = game.handSize THEN 0 ELSE game.wasteSize IN
    [game EXCEPT !.wasteSize = Min(recycled + game.drawSize, MAX_HAND_SIZE)]

applyDraw(game) ==
  LET recycled == IF game.wasteSize = game.handSize THEN 0 ELSE game.wasteSize IN
    [game EXCEPT !.wasteSize = Min(recycled + game.drawSize, game.handSize)]

applyWasteToFoundation(game) ==
  LET card == WasteTop(game) IN
    [game EXCEPT !.foundation[suit(card)] = rank(card),
                 !.hand = RemoveWasteTop(game),
                 !.handSize = game.handSize - 1,
                 !.wasteSize = game.wasteSize - 1]

\* a faulty variant of applyWasteToTableau: the card is put under the stack
applyWasteToTableauUnder(game, move) ==
  LET dstColIdx == Extra(move, 0)
      card == WasteTop(game) IN
    [game EXCEPT !.tableau[dstColIdx].faceUp = <<card>> \o @,
                 !.hand = RemoveWasteTop(game),
                 !.handSize = game.handSize - 1,
                 !.wasteSize = game.wasteSize - 1]

applyWasteToTableau(game, move) ==
  LET dstColIdx == Extra(move, 0)
      card == WasteTop(game) IN
    [game EXCEPT !.tableau[dstColIdx].faceUp = Append(@, card),
                 !.hand = RemoveWasteTop(game),
                 !.handSize = game.handSize - 1,
                 !.wasteSize = game.wasteSize - 1]

applyTableauToFoundation(game, move) ==
  LET srcColIdx == Extra(move, 0)
      card == Last(game.tableau[srcColIdx].faceUp) IN
    [game EXCEPT !.tableau[srcColIdx].faceUp = Front(@),
                 !.foundation[suit(card)] = rank(card)]

\* a faulty variant of applyTableauToTableau: only the card at srcRowIdx is
\* copied
applyTableauToTableauOneCard(game, move) ==
  LET srcColIdx == Extra(move, 0)
      srcRowIdx == Extra(move, 1)
      dstColIdx == Extra(move, 2)
      srcCol == game.tableau[srcColIdx] IN
    [game EXCEPT !.tableau[dstColIdx].faceUp = Append(@, srcCol.faceUp[srcRowIdx + 1]),
                 !.tableau[srcColIdx].faceUp = SubSeq(srcCol.faceUp, 1, srcRowIdx)]

\* the copy loop followed by the truncation of the source; isValid is false
\* for srcColIdx = dstColIdx in every state the program reaches, and the
\* loop is only modelled for distinct columns
applyTableauToTableau(game, move) ==
  LET srcColIdx == Extra(move, 0)
      srcRowIdx == Extra(move, 1)
      dstColIdx == Extra(move, 2)
      srcCol == game.tableau[srcColIdx] IN
    [game EXCEPT !.tableau[dstColIdx].faceUp = @ \o Suffix(srcCol.faceUp, srcRowIdx),
                 !.tableau[srcColIdx].faceUp = SubSeq(srcCol.faceUp, 1, srcRowIdx)]

\* flip over the top face-down card of a column whose face-up stack is empty
\* a faulty variant of exposeColumn: the face-down card dealt first is the
\* one turned over
exposeColumnFromBottom(column) ==
  IF Len(column.faceUp) = 0 /\ Len(column.faceDown) # 0
    THEN [faceDown |-> Tail(column.faceDown),
          faceUp   |-> Append(column.faceUp, Head(column.faceDown))]
    ELSE column

exposeColumn(column) ==
  IF Len(column.faceUp) = 0 /\ Len(column.faceDown) # 0
    THEN [faceDown |-> Front(column.faceDown),
          faceUp   |-> Append(column.faceUp, Last(column.faceDown))]
    ELSE column

expose(game) ==
  [game EXCEPT !.tableau = [c \in Columns |-> exposeColumn(game.tableau[c])]]

applyCase(game, move) ==
  CASE move.type = DRAW -> applyDraw(game)
    [] move.type = WASTE_TO_FOUNDATION -> applyWasteToFoundation(game)
    [] move.type = WASTE_TO_TABLEAU -> applyWasteToTableau(game, move)
    [] move.type = TABLEAU_TO_FOUNDATION -> applyTableauToFoundation(game, move)
    [] move.type = TABLEAU_TO_TABLEAU -> applyTableauToTableau(game, move)
    [] OTHER -> game

\* a faulty variant of apply: the exposure pass is left out
applyNoExpose(game, move) == applyCase(game, move)

apply(game, move) == expose(applyCase(game, move))

(***************************************************************************)
(* Solitaire::isWon                                                        *)
(***************************************************************************)
\* a faulty variant of isWon: the hand is not looked at
isWonTableauOnly(game) ==
  \A c \in Columns : ~(Len(game.tableau[c].faceDown) > 0)

isWon(game) ==
  /\ ~(game.handSize > 0)
  /\ \A c \in Columns : ~(Len(game.tableau[c].faceDown) > 0)

(***************************************************************************)
(* folly::hash::fnv64_buf: 64-bit FNV over a byte sequence.  A 64-bit word *)
(* is kept as four 16-bit limbs <<l0, l1, l2, l3>>, least significant      *)
(* first; the multiplication by the FNV prime 2^40 + 435 is the sum of     *)
(* shifts of the library, taken modulo 2^64.                               *)
(***************************************************************************)
LIMB == 65536

\* 14695981039346656037 = 0xCBF2 9CE4 8422 2325
FNV_64_HASH_START == <<8997, 33826, 40164, 52210>>

RECURSIVE XorBits(_, _, _)
XorBits(a, b, n) ==
  IF n = 0 THEN 0
  ELSE ((a + b) % 2) + 2 * XorBits(a \div 2, b \div 2, n - 1)

FnvStep(h, byte) ==
  LET t0 == h[1] * 435
      t1 == h[2] * 435 + (t0 \div LIMB)
      t2 == h[3] * 435 + (t1 \div LIMB) + ((h[1] * 256) % LIMB)
      t3 == h[4] * 435 + (t2 \div LIMB) + ((h[1] * 256) \div LIMB)
              + ((h[2] * 256) % LIMB)
      m0 == t0 % LIMB
  IN  <<(m0 - (m0 % 256)) + XorBits(m0 % 256, byte, 8),
        t1 % LIMB, t2 % LIMB, t3 % LIMB>>

\* the loop over buf[lo .. hi], started with hash h; the range is halved and
\* the hash of the left half is computed before the right half is entered,
\* which keeps the evaluation shallow
RECURSIVE FnvRange(_, _, _, _)
FnvRange(h, buf, lo, hi) ==
  IF lo > hi THEN h
  ELSE IF lo = hi THEN FnvStep(h, buf[lo])
  ELSE LET mid == (lo + hi) \div 2
           left == FnvRange(h, buf, lo, mid) IN
         IF left[1] >= 0 THEN FnvRange(left, buf, mid + 1, hi) ELSE left

fnv64_buf(buf) == FnvRange(FNV_64_HASH_START, buf, 1, Len(buf))

(***************************************************************************)
(* Cache keys: characters are their ASCII codes                            *)
(***************************************************************************)
\* {'S', 'H', 'D', 'C'}
SUIT_CHARS == <<83, 72, 68, 67>>

\* {'A', '2', '3', '4', '5', '6', '7', '8', '9', 'T', 'J', 'Q', 'K'}
RANK_CHARS == <<65, 50, 51, 52, 53, 54, 55, 56, 57, 84, 74, 81, 75>>

\* '|'
SEPARATOR == 124

\* '0'
CHAR_0 == 48

\* 'a'
CHAR_a == 97

RECURSIVE Flatten(_)
Flatten(ss) == IF ss = <<>> THEN <<>> ELSE Head(ss) \o Flatten(Tail(ss))

\* a faulty variant of CardChars: a separator is written after each card
CardCharsSeparated(c) ==
  <<RANK_CHARS[rank(c) + 1], SUIT_CHARS[suit(c) + 1], SEPARATOR>>

\* the rank character and the suit character of a card
CardChars(c) == <<RANK_CHARS[rank(c) + 1], SUIT_CHARS[suit(c) + 1]>>

CardsChars(cards) == Flatten([i \in 1 .. Len(cards) |-> CardChars(cards[i])])

\* a faulty variant of TableauCacheKey: the face-up cards are left out
TableauCacheKeyNoCards(game) ==
  Flatten([k \in 1 .. TABLEAU_SIZE |->
             LET column == game.tableau[k - 1] IN
               <<CHAR_0 + (k - 1), CHAR_0 + Len(column.faceDown), SEPARATOR>>])

\* the key of _addTableauToTableauMoves, before hashing
TableauCacheKey(game) ==
  Flatten([k \in 1 .. TABLEAU_SIZE |->
             LET column == game.tableau[k - 1] IN
               <<CHAR_0 + (k - 1), CHAR_0 + Len(column.faceDown)>>
                 \o CardsChars(column.faceUp) \o <<SEPARATOR>>])

\* sortFunc of _getGameCacheStr
TableauLess(game, i1, i2) ==
  LET lhs == game.tableau[i1]
      rhs == game.tableau[i2] IN
    IF Len(lhs.faceDown) > 0 /\ Len(rhs.faceDown) > 0 THEN i1 < i2
    ELSE IF Len(lhs.faceDown) > 0 /\ Len(rhs.faceDown) = 0 THEN TRUE
    ELSE IF Len(lhs.faceDown) = 0 /\ Len(rhs.faceDown) > 0 THEN FALSE
    ELSE IF Len(lhs.faceUp) > 0 /\ Len(rhs.faceUp) > 0
           THEN lhs.faceUp[1] < rhs.faceUp[1]
    ELSE IF Len(lhs.faceUp) > 0 /\ Len(rhs.faceUp) = 0 THEN TRUE
    ELSE IF Len(lhs.faceUp) = 0 /\ Len(rhs.faceUp) > 0 THEN FALSE
    ELSE i1 < i2

\* a faulty variant of sortedTableauIndices: the indices are left in the
\* order of std::iota
sortedTableauIndicesIota(game) == [k \in 1 .. TABLEAU_SIZE |-> k - 1]

\* std::sort of the column indices: sortFunc orders the indices of a game of
\* distinct cards totally, so the sorted sequence is the one that puts each
\* index after the indices that are less than it
sortedTableauIndices(game) ==
  LET pos == [i \in Columns |->
                Cardinality({j \in Columns : TableauLess(game, j, i)})] IN
    [k \in 1 .. TABLEAU_SIZE |-> CHOOSE i \in Columns : pos[i] = k - 1]

\* a faulty variant of GameCacheStr: the waste size is left out
GameCacheStrNoWasteSize(game, canFlipDeck) ==
  LET sorted == sortedTableauIndices(game) IN
    <<IF canFlipDeck THEN CHAR_0 + 1 ELSE CHAR_0>>
      \o Flatten([k \in 1 .. game.handSize |-> CardChars(game.hand[k - 1])])
      \o <<SEPARATOR>>
      \o [k \in 1 .. NUM_SUITS |->
            LET f == game.foundation[k - 1] IN
              IF f >= 0 THEN RANK_CHARS[f + 1] ELSE CHAR_0]
      \o <<SEPARATOR>>
      \o Flatten([k \in 1 .. TABLEAU_SIZE |->
                    LET i == sorted[k]
                        column == game.tableau[i] IN
                      (IF Len(column.faceDown) > 0
                         THEN <<CHAR_0 + i, CHAR_0 + Len(column.faceDown)>>
                         ELSE <<>>)
                        \o CardsChars(column.faceUp) \o <<SEPARATOR>>])

\* the byte string that _getGameCacheStr assembles
GameCacheStr(game, canFlipDeck) ==
  LET sorted == sortedTableauIndices(game) IN
    <<IF canFlipDeck THEN CHAR_0 + 1 ELSE CHAR_0>>
      \o <<CHAR_a + game.wasteSize>>
      \o Flatten([k \in 1 .. game.handSize |-> CardChars(game.hand[k - 1])])
      \o <<SEPARATOR>>
      \o [k \in 1 .. NUM_SUITS |->
            LET f == game.foundation[k - 1] IN
              IF f >= 0 THEN RANK_CHARS[f + 1] ELSE CHAR_0]
      \o <<SEPARATOR>>
      \o Flatten([k \in 1 .. TABLEAU_SIZE |->
                    LET i == sorted[k]
                        column == game.tableau[i] IN
                      (IF Len(column.faceDown) > 0
                         THEN <<CHAR_0 + i, CHAR_0 + Len(column.faceDown)>>
                         ELSE <<>>)
                        \o CardsChars(column.faceUp) \o <<SEPARATOR>>])

_getGameCacheStr(game, canFlipDeck) == fnv64_buf(GameCacheStr(game, canFlipDeck))

(***************************************************************************)
(* folly::EvictingCacheMap: a sequence of entries [key, value] in order of *)
(* use, the least recently used entry first.  A capacity of 0 disables     *)
(* eviction.                                                               *)
(***************************************************************************)
CacheExists(cache, key) == \E i \in 1 .. Len(cache) : cache[i].key = key

CacheIndex(cache, key) == CHOOSE i \in 1 .. Len(cache) : cache[i].key = key

CacheRemoveAt(cache, i) == SubSeq(cache, 1, i - 1) \o SubSeq(cache, i + 1, Len(cache))

\* get(): the value of the entry
CacheValue(cache, key) == cache[CacheIndex(cache, key)].value

\* a faulty variant of CachePromote: exists() alone, which promotes nothing
CachePromoteNone(cache, key) == cache

\* get(): the entry becomes the most recently used one
CachePromote(cache, key) ==
  LET i == CacheIndex(cache, key) IN
    Append(CacheRemoveAt(cache, i), cache[i])

\* a faulty variant of CacheSet: nothing is recorded
CacheSetNothing(cache, maxSize, key, value) == cache

\* set(): replace and promote an entry that exists; otherwise insert, and
\* evict the least recently used entry when the size exceeds maxSize
CacheSet(cache, maxSize, key, value) ==
  IF CacheExists(cache, key)
    THEN Append(CacheRemoveAt(cache, CacheIndex(cache, key)),
                [key |-> key, value |-> value])
    ELSE LET inserted == Append(cache, [key |-> key, value |-> value]) IN
           IF maxSize > 0 /\ Len(inserted) > maxSize THEN Tail(inserted)
                                                     ELSE inserted

\* Solver::MAX_VALID_MOVES and Solver::MAX_VALID_TABLEAU_MOVES: the sizes of
\* the arrays moves and newMoves
MAX_VALID_MOVES == 25

MAX_VALID_TABLEAU_MOVES == 14

(***************************************************************************)
(* Solver: the move generator                                              *)
(***************************************************************************)
NoExtra == -1

_addAceMoves(game) ==
  (IF game.wasteSize > 0 /\ rank(WasteTop(game)) = 0
     THEN <<Move(WASTE_TO_FOUNDATION, NoExtra, NoExtra, NoExtra)>>
     ELSE <<>>)
  \o Flatten([k \in 1 .. TABLEAU_SIZE |->
                LET column == game.tableau[k - 1] IN
                  IF Len(column.faceUp) > 0 /\ rank(Last(column.faceUp)) = 0
                    THEN <<Move(TABLEAU_TO_FOUNDATION, k - 1, NoExtra, NoExtra)>>
                    ELSE <<>>])

_addToFoundationMoves(game) ==
  (IF /\ game.wasteSize > 0
      /\ rank(WasteTop(game)) # 0
      /\ isValid(game, Move(WASTE_TO_FOUNDATION, NoExtra, NoExtra, NoExtra))
     THEN <<Move(WASTE_TO_FOUNDATION, NoExtra, NoExtra, NoExtra)>>
     ELSE <<>>)
  \o Flatten([k \in 1 .. TABLEAU_SIZE |->
                LET column == game.tableau[k - 1]
                    move == Move(TABLEAU_TO_FOUNDATION, k - 1, NoExtra, NoExtra) IN
                  IF /\ Len(column.faceUp) > 0
                     /\ rank(Last(column.faceUp)) # 0
                     /\ isValid(game, move)
                    THEN <<move>>
                    ELSE <<>>])

\* a faulty variant of needsKingSpace: a column with an empty face-up stack
\* is not noticed
needsKingSpaceAlways(game) == TRUE

\* needsKingSpace: no column has an empty face-up stack
needsKingSpace(game) == \A c \in Columns : Len(game.tableau[c].faceUp) # 0

\* the moves of _addCardRevealingMoves in generation order, before the sort
RevealingCandidates(game) ==
  Flatten([k \in 1 .. TABLEAU_SIZE |->
    LET srcCol == game.tableau[k - 1] IN
      IF Len(srcCol.faceUp) # 0 /\ Len(srcCol.faceDown) > 0
        THEN Flatten([d \in 1 .. TABLEAU_SIZE |->
               LET move == Move(TABLEAU_TO_TABLEAU, k - 1, 0, d - 1) IN
                 IF (k # d) /\ isValid(game, move) THEN <<move>> ELSE <<>>])
        ELSE <<>>])

\* sortFunc of _addCardRevealingMoves
RevealingLess(game, lhs, rhs) ==
  LET lhsColIdx == Extra(lhs, 0)
      rhsColIdx == Extra(rhs, 0)
      lhsCount == Len(game.tableau[lhsColIdx].faceDown)
      rhsCount == Len(game.tableau[rhsColIdx].faceDown) IN
    IF lhsCount = rhsCount THEN lhsColIdx < rhsColIdx
    ELSE IF needsKingSpace(game) THEN lhsCount < rhsCount
    ELSE rhsCount < lhsCount

\* std::sort of at most MAX_VALID_TABLEAU_MOVES elements: the insertion sort
\* that g++'s library runs on ranges of at most 16 elements; moves that
\* sortFunc does not order keep their generation order
RECURSIVE InsertMove(_, _, _)
InsertMove(game, sorted, move) ==
  IF sorted = <<>> THEN <<move>>
  ELSE IF RevealingLess(game, move, Last(sorted))
         THEN Append(InsertMove(game, Front(sorted), move), Last(sorted))
         ELSE Append(sorted, move)

RECURSIVE SortMoves(_, _, _)
SortMoves(game, sorted, rest) ==
  IF rest = <<>> THEN sorted
  ELSE SortMoves(game, InsertMove(game, sorted, Head(rest)), Tail(rest))

_addCardRevealingMoves(game) == SortMoves(game, <<>>, RevealingCandidates(game))

_addWasteToTableauMoves(game) ==
  Flatten([d \in 1 .. TABLEAU_SIZE |->
             LET move == Move(WASTE_TO_TABLEAU, d - 1, NoExtra, NoExtra) IN
               IF isValid(game, move) THEN <<move>> ELSE <<>>])

_addDrawMove(game) ==
  LET move == Move(DRAW, NoExtra, NoExtra, NoExtra) IN
    IF isValid(game, move) THEN <<move>> ELSE <<>>

\* the three nested loops of _addTableauToTableauMoves (a cache miss)
NonRevealingMoves(game) ==
  Flatten([k \in 1 .. TABLEAU_SIZE |->
    Flatten([srcRowIdx \in 1 .. (Len(game.tableau[k - 1].faceUp) - 1) |->
      Flatten([d \in 1 .. TABLEAU_SIZE |->
        LET move == Move(TABLEAU_TO_TABLEAU, k - 1, srcRowIdx, d - 1) IN
          IF (k # d) /\ isValid(game, move) THEN <<move>> ELSE <<>>])])])

\* the moves _addTableauToTableauMoves appends: the cached list on a hit
_addTableauToTableauMoves(game, moveCache) ==
  LET cacheKeyHash == fnv64_buf(TableauCacheKey(game)) IN
    IF CacheExists(moveCache, cacheKeyHash)
      THEN CacheValue(moveCache, cacheKeyHash)
      ELSE NonRevealingMoves(game)

\* _tableauMoveCache.exists(cacheKeyHash) in _addTableauToTableauMoves
TableauMoveCacheHit(game, moveCache) ==
  CacheExists(moveCache, fnv64_buf(TableauCacheKey(game)))

\* a faulty variant of TableauMoveCacheAfter: on a miss the Ace moves of the
\* game are stored with the moves of _addTableauToTableauMoves
TableauMoveCacheAfterAllMoves(game, moveCache, maxSize) ==
  LET cacheKeyHash == fnv64_buf(TableauCacheKey(game)) IN
    IF CacheExists(moveCache, cacheKeyHash)
      THEN CachePromote(moveCache, cacheKeyHash)
      ELSE CacheSet(moveCache, maxSize, cacheKeyHash,
                    _addAceMoves(game) \o NonRevealingMoves(game))

\* the tableau-move cache after _addTableauToTableauMoves
TableauMoveCacheAfter(game, moveCache, maxSize) ==
  LET cacheKeyHash == fnv64_buf(TableauCacheKey(game)) IN
    IF CacheExists(moveCache, cacheKeyHash)
      THEN CachePromote(moveCache, cacheKeyHash)
      ELSE CacheSet(moveCache, maxSize, cacheKeyHash, NonRevealingMoves(game))

\* a faulty variant of _getValidMoves: the DRAW move is added before the
\* WASTE_TO_TABLEAU moves
_getValidMovesDrawFirst(game, moveCache) ==
  _addAceMoves(game)
    \o _addToFoundationMoves(game)
    \o _addCardRevealingMoves(game)
    \o _addDrawMove(game)
    \o _addWasteToTableauMoves(game)
    \o _addTableauToTableauMoves(game, moveCache)

_getValidMoves(game, moveCache) ==
  _addAceMoves(game)
    \o _addToFoundationMoves(game)
    \o _addCardRevealingMoves(game)
    \o _addWasteToTableauMoves(game)
    \o _addDrawMove(game)
    \o _addTableauToTableauMoves(game, moveCache)

(***************************************************************************)
(* Bounds of the model                                                     *)
(***************************************************************************)
\* moves a caller applies to its game before the solver is started
MaxMoves == 6

\* seconds the clock advances during one solve()
MaxClock == 1

\* frames of _solveImpl the call stack of the process holds
MaxDepth == 100

\* solver runs on one deck (one process each)
MaxRuns == 2

(***************************************************************************)
(* Inputs: decks as arrays of cards, index 0 first.                        *)
(***************************************************************************)
MkDeck(cards) == [i \in 0 .. (NUM_CARDS - 1) |-> cards[i + 1]]

\* A♠..K♠, A♥..K♥, A♦..K♦, A♣..K♣
DeckSorted == MkDeck([i \in 1 .. NUM_CARDS |-> i - 1])

\* wins without backtracking; the first moves offer every kind of move
DeckPlay ==
  MkDeck(<<31, 33, 5, 23, 42, 40, 32, 26, 39, 29, 25, 36, 10, 48, 8, 15, 50,
           7, 43, 12, 24, 4, 13, 14, 41, 46, 34, 51, 44, 38, 30, 49, 21, 45,
           20, 16, 9, 11, 6, 28, 3, 17, 35, 22, 18, 47, 27, 19, 37, 2, 1, 0>>)

\* nothing but DRAW is ever valid
DeckDraws ==
  MkDeck(<<23, 40, 32, 50, 14, 6, 21, 8, 5, 11, 31, 38, 24, 25, 1, 46, 29,
           45, 41, 51, 30, 43, 48, 39, 2, 28, 33, 0, 35, 7, 47, 9, 27, 10,
           26, 12, 34, 42, 4, 22, 36, 37, 16, 20, 17, 15, 44, 18, 13, 19,
           49, 3>>)

\* no solution; the search backtracks and prunes
DeckStuck ==
  MkDeck(<<49, 41, 25, 16, 26, 39, 5, 13, 24, 37, 7, 6, 4, 46, 2, 50, 30,
           17, 9, 31, 21, 3, 44, 19, 42, 10, 34, 38, 35, 1, 12, 14, 48, 11,
           15, 40, 27, 23, 8, 32, 43, 0, 36, 47, 20, 51, 28, 29, 18, 33,
           45, 22>>)

\* wins after backtracking
DeckBack ==
  MkDeck(<<42, 12, 3, 20, 24, 49, 31, 15, 10, 40, 14, 28, 29, 21, 17, 36,
           13, 11, 45, 23, 1, 46, 5, 41, 30, 38, 22, 25, 50, 8, 51, 9, 47,
           39, 26, 33, 7, 19, 48, 18, 34, 32, 37, 35, 44, 27, 16, 4, 2, 6,
           0, 43>>)

\* wins; cached tableau moves are applied after Aces have been played
DeckCache ==
  MkDeck(<<35, 51, 34, 10, 33, 40, 46, 30, 43, 31, 23, 4, 44, 49, 18, 24,
           42, 36, 6, 38, 27, 21, 8, 7, 13, 48, 37, 16, 19, 26, 17, 29,
           0, 20, 39, 2, 41, 5, 50, 11, 9, 25, 12, 32, 28, 1, 3, 45,
           47, 22, 14, 15>>)

\* three columns go to the foundations in six moves; the other four show
\* two Kings and two Queens over face-down cards
DeckKings ==
  MkDeck(<<45, 8, 40, 22, 5, 3, 15, 35, 31, 28, 4, 11, 21, 33, 9, 42, 19,
           23, 32, 29, 6, 39, 25, 34, 37, 43, 24, 46, 36, 51, 49, 48, 20, 12,
           41, 7, 10, 38, 26, 30, 18, 17, 47, 14, 13, 50, 44, 16, 27, 2, 1,
           0>>)

\* DEFINE_uint64(state_cache_size, ...), DEFINE_uint64(move_cache_size, ...)
DEFAULT_STATE_CACHE_SIZE == 1000000

DEFAULT_MOVE_CACHE_SIZE == 100000

\* DEFINE_uint64(timeout, 30, ...)
DEFAULT_TIMEOUT == 30

DefaultSizes == <<DEFAULT_STATE_CACHE_SIZE, DEFAULT_MOVE_CACHE_SIZE>>

\* An input: the deck, the draw size, the --timeout flag and the settings
\* <<state_cache_size, move_cache_size>> the deck is solved with
Input(d, ds, t, sz) == [deck |-> d, drawSize |-> ds, timeout |-> t, sizes |-> sz]

Inputs ==
  { Input(DeckSorted, 3, DEFAULT_TIMEOUT, {DefaultSizes}),
    Input(DeckPlay, 3, DEFAULT_TIMEOUT, {DefaultSizes}),
    Input(DeckDraws, 3, DEFAULT_TIMEOUT, {DefaultSizes, <<4, 1>>}),
    Input(DeckDraws, 3, 1, {DefaultSizes}),
    Input(DeckStuck, 3, 1, {DefaultSizes}),
    Input(DeckBack, 3, DEFAULT_TIMEOUT, {DefaultSizes}),
    Input(DeckCache, 3, DEFAULT_TIMEOUT, {DefaultSizes}) }

(***************************************************************************)
(* State                                                                   *)
(***************************************************************************)
VARIABLES
  input,              \* the deck and flags of the process
  game,               \* the caller's Solitaire object
  numApplied,         \* moves the caller has applied to game
  wasteOut,           \* WASTE_TO_FOUNDATION and WASTE_TO_TABLEAU moves among them
  lastMove,           \* the move applied last, as a sequence of at most one move
  FLAGS_state_cache_size,
  FLAGS_move_cache_size,
  clock,              \* std::chrono::steady_clock::now(), in seconds
  _game,              \* Solver::_game
  _startTime,
  _timeout,
  _stateCache,
  _tableauMoveCache,
  _numCalls,
  seenCardStacks,
  stack,              \* the frames of _solveImpl that are in their for loop,
                      \* with the local gameCacheStr;
                      \* cacheHit: the tableau moves came from the cache;
                      \* seenOnEntry: seenCardStacks when the frame last
                      \* entered _maybeApplyMove and went on to recurse
  call,               \* the arguments of the _solveImpl call just made, if any
  ret,                \* the value the last _solveImpl call returned
  pc,
  result,             \* the SolverResult of solve()
  deadlineHit,        \* a _solveImpl call has returned at its deadline check
  winPath,            \* the moves applied from the root when isWon was met
  runs,               \* solver runs started on this deck
  first               \* the results of the earlier runs

vars ==
  <<input, game, numApplied, wasteOut, lastMove, FLAGS_state_cache_size,
    FLAGS_move_cache_size, clock, _game, _startTime, _timeout, _stateCache,
    _tableauMoveCache, _numCalls, seenCardStacks, stack, call, ret, pc,
    result, deadlineHit, winPath, runs, first>>

callerVars == <<game, numApplied, wasteOut, lastMove>>

solverVars ==
  <<FLAGS_state_cache_size, FLAGS_move_cache_size, clock, _game, _startTime,
    _timeout, _stateCache, _tableauMoveCache, _numCalls, seenCardStacks,
    stack, call, ret, pc, result, deadlineHit, winPath, runs, first>>

SOLVED == "SOLVED"
TIMEOUT == "TIMEOUT"
NO_SOLUTION == "NO_SOLUTION"

\* folly::none and a present list of moves
None == [some |-> FALSE, moves |-> <<>>]

Some(moves) == [some |-> TRUE, moves |-> moves]

NoResult == [status |-> "none", elapsed |-> 0, moves |-> <<>>]

\* Solver::Solver
SolverInit(g, timeout) ==
  /\ _game = g
  /\ _timeout = timeout
  /\ _stateCache = <<>>
  /\ _tableauMoveCache = <<>>
  /\ _numCalls = 0

Init ==
  /\ input \in Inputs
  /\ game = NewSolitaire(input.deck, input.drawSize)
  /\ numApplied = 0
  /\ wasteOut = 0
  /\ lastMove = <<>>
  /\ \E sz \in input.sizes :
       /\ FLAGS_state_cache_size = sz[1]
       /\ FLAGS_move_cache_size = sz[2]
  /\ clock = 0
  /\ SolverInit(game, input.timeout)
  /\ _startTime = 0
  /\ seenCardStacks = {}
  /\ stack = <<>>
  /\ call = <<>>
  /\ ret = None
  /\ pc = "idle"
  /\ result = NoResult
  /\ deadlineHit = FALSE
  /\ winPath = <<>>
  /\ runs = 0
  /\ first = <<>>

(***************************************************************************)
(* The caller plays: a valid move is applied to its game.  Before the      *)
(* solver is started the caller applies up to MaxMoves moves of any kind;  *)
(* on a game that is won it goes on filling the foundations.               *)
(***************************************************************************)
FreePlay == pc = "idle" /\ numApplied < MaxMoves

\* the caller has applied every move of the result of a solver that was
\* built on the game as dealt
Replayed ==
  /\ pc = "done"
  /\ result.status = SOLVED
  /\ numApplied >= Len(result.moves)
  /\ _game = NewSolitaire(input.deck, input.drawSize)

Play(move) ==
  /\ game' = apply(game, move)
  /\ numApplied' = numApplied + 1
  /\ wasteOut' = IF move.type \in {WASTE_TO_FOUNDATION, WASTE_TO_TABLEAU}
                   THEN wasteOut + 1 ELSE wasteOut
  /\ lastMove' = <<move>>
  /\ UNCHANGED <<input, solverVars>>

Draw ==
  LET move == Move(DRAW, NoExtra, NoExtra, NoExtra) IN
    /\ FreePlay
    /\ isValid(game, move)
    /\ Play(move)

WasteToFoundation ==
  LET move == Move(WASTE_TO_FOUNDATION, NoExtra, NoExtra, NoExtra) IN
    /\ FreePlay
    /\ isValid(game, move)
    /\ Play(move)

WasteToTableau ==
  \E dstColIdx \in Columns :
    LET move == Move(WASTE_TO_TABLEAU, dstColIdx, NoExtra, NoExtra) IN
      /\ FreePlay
      /\ isValid(game, move)
      /\ Play(move)

TableauToFoundation ==
  \E srcColIdx \in Columns :
    LET move == Move(TABLEAU_TO_FOUNDATION, srcColIdx, NoExtra, NoExtra) IN
      /\ FreePlay \/ (Replayed /\ isWon(game))
      /\ isValid(game, move)
      /\ Play(move)

TableauToTableau ==
  \E srcColIdx \in Columns, dstColIdx \in Columns :
    \E srcRowIdx \in 0 .. (NUM_RANKS - 1) :
      LET move == Move(TABLEAU_TO_TABLEAU, srcColIdx, srcRowIdx, dstColIdx) IN
        /\ FreePlay
        /\ isValid(game, move)
        /\ Play(move)

\* the caller applies the next move of a SOLVED result to a game it built
\* from the same deck
Replay ==
  /\ pc = "done"
  /\ result.status = SOLVED
  /\ numApplied < Len(result.moves)
  /\ Play(result.moves[numApplied + 1])

(***************************************************************************)
(* Solver::solve, _solveImpl and _maybeApplyMove.  A step runs the code    *)
(* from one call or return of _solveImpl to the next.                      *)
(***************************************************************************)
Top == stack[Len(stack)]

Pop == SubSeq(stack, 1, Len(stack) - 1)

\* std::array<Card, MAX_HAND_SIZE>::empty(), the test game.hand().empty()
hand_empty(game_) == MAX_HAND_SIZE = 0

\* solve() up to its call of _solveImpl
Solve ==
  /\ (pc = "idle" /\ numApplied = 0) \/ pc = "built"
  /\ _startTime' = clock
  /\ seenCardStacks' = {}
  /\ call' = <<[game |-> _game, canFlipDeck |-> FALSE]>>
  /\ pc' = "call"
  /\ runs' = runs + 1
  /\ UNCHANGED <<input, callerVars, FLAGS_state_cache_size,
                 FLAGS_move_cache_size, clock, _game, _timeout, _stateCache,
                 _tableauMoveCache, _numCalls, stack, ret, result,
                 deadlineHit, winPath, first>>

\* the moves applied on the way from the root to the call that was just made
PathMoves == [k \in 1 .. Len(stack) |-> stack[k].moves[stack[k].i + 1]]

\* a faulty variant of SolveImplBranch: the state cache is not consulted
SolveImplBranchNoSeen(g, canFlipDeck) ==
  IF clock - _startTime >= _timeout THEN "timeout"
  ELSE IF isWon(g) THEN "won"
  ELSE "loop"

\* a faulty variant of SolveImplBranch: the base case of the recursion is
\* left out
SolveImplBranchNoBaseCase(g, canFlipDeck) ==
  IF clock - _startTime >= _timeout THEN "timeout"
  ELSE IF CacheExists(_stateCache, _getGameCacheStr(g, canFlipDeck)) THEN "seen"
  ELSE "loop"

\* the return that _solveImpl takes before its loop, in the order of its
\* tests, or "loop" when it takes none of them
SolveImplBranch(g, canFlipDeck) ==
  IF clock - _startTime >= _timeout THEN "timeout"
  ELSE IF isWon(g) THEN "won"
  ELSE IF CacheExists(_stateCache, _getGameCacheStr(g, canFlipDeck)) THEN "seen"
  ELSE "loop"

\* _solveImpl from its entry to its first call of _maybeApplyMove, or to its
\* return when it returns before the loop
SolveImpl ==
  /\ pc = "call"
  /\ LET g == call[1].game
         canFlipDeck == call[1].canFlipDeck
         gameCacheStr == _getGameCacheStr(g, canFlipDeck)
         moves == _getValidMoves(g, _tableauMoveCache)
         branch == SolveImplBranch(g, canFlipDeck) IN
       IF branch = "timeout"
         THEN /\ ret' = None
              /\ pc' = "ret"
              /\ deadlineHit' = TRUE
              /\ UNCHANGED <<_stateCache, _tableauMoveCache, _numCalls, stack,
                             winPath>>
       ELSE IF branch = "won"
         THEN /\ ret' = Some(<<>>)
              /\ pc' = "ret"
              /\ winPath' = PathMoves
              /\ UNCHANGED <<_stateCache, _tableauMoveCache, _numCalls, stack,
                             deadlineHit>>
       ELSE IF branch = "seen"
         THEN /\ _stateCache' = CachePromote(_stateCache, gameCacheStr)
              /\ ret' = None
              /\ pc' = "ret"
              /\ UNCHANGED <<_tableauMoveCache, _numCalls, stack, deadlineHit,
                             winPath>>
       ELSE /\ _stateCache' = CacheSet(_stateCache, FLAGS_state_cache_size,
                                       gameCacheStr, TRUE)
            /\ _numCalls' = _numCalls + 1
            /\ _tableauMoveCache' =
                 TableauMoveCacheAfter(g, _tableauMoveCache, FLAGS_move_cache_size)
            /\ stack' = Append(stack, [game |-> g, canFlipDeck |-> canFlipDeck,
                                       gameCacheStr |-> gameCacheStr,
                                       moves |-> moves, i |-> 0,
                                       newStacks |-> <<>>,
                                       seenOnEntry |-> seenCardStacks,
                                       cacheHit |->
                                         TableauMoveCacheHit(g, _tableauMoveCache)])
            /\ ret' = None
            /\ pc' = "loop"
            /\ UNCHANGED <<deadlineHit, winPath>>
  /\ call' = <<>>
  /\ UNCHANGED <<input, callerVars, FLAGS_state_cache_size,
                 FLAGS_move_cache_size, clock, _game, _startTime, _timeout,
                 seenCardStacks, result, runs, first>>

\* canFlipDeck as _maybeApplyMove passes it on
NextCanFlipDeck(g, move, canFlipDeck) ==
  IF move.type = DRAW
    THEN IF hand_empty(g) THEN FALSE ELSE canFlipDeck
  ELSE IF move.type = WASTE_TO_FOUNDATION \/ move.type = WASTE_TO_TABLEAU
    THEN TRUE
  ELSE canFlipDeck

\* the recycling DRAW that _maybeApplyMove refuses
FlipPruned(g, move, canFlipDeck) ==
  move.type = DRAW /\ hand_empty(g) /\ ~canFlipDeck

\* the face-up stacks of the source and the destination after the move
NewStacks(clonedGame, move) ==
  IF move.type = TABLEAU_TO_TABLEAU
    THEN <<clonedGame.tableau[Extra(move, 0)].faceUp,
           clonedGame.tableau[Extra(move, 2)].faceUp>>
    ELSE <<>>

\* a faulty variant of StackPruned: one stack seen before is enough
StackPrunedEither(newStacks, seen) ==
  /\ newStacks # <<>>
  /\ newStacks[1] \in seen \/ newStacks[2] \in seen

\* "Neither stack is new, abort"
StackPruned(newStacks, seen) ==
  /\ newStacks # <<>>
  /\ newStacks[1] \in seen
  /\ newStacks[2] \in seen

\* one iteration of the for loop of _solveImpl up to the call of _solveImpl
\* in _maybeApplyMove; when _maybeApplyMove returns none before that call,
\* the loop goes on to the next move
MaybeApplyMove ==
  /\ pc = "loop"
  /\ Top.i < Len(Top.moves)
  /\ LET move == Top.moves[Top.i + 1]
         canFlipDeck == NextCanFlipDeck(Top.game, move, Top.canFlipDeck)
         clonedGame == apply(Top.game, move)
         newStacks == NewStacks(clonedGame, move) IN
       IF FlipPruned(Top.game, move, Top.canFlipDeck)
            \/ StackPruned(newStacks, seenCardStacks)
         THEN /\ stack' = [stack EXCEPT ![Len(stack)].i = @ + 1]
              /\ UNCHANGED <<seenCardStacks, call, pc>>
       ELSE IF Len(stack) >= MaxDepth
         THEN /\ pc' = "overflow"
              /\ UNCHANGED <<seenCardStacks, call, stack>>
       ELSE /\ seenCardStacks' = seenCardStacks \cup Range(newStacks)
            /\ stack' = [stack EXCEPT ![Len(stack)].newStacks = newStacks,
                                      ![Len(stack)].seenOnEntry = seenCardStacks]
            /\ call' = <<[game |-> clonedGame, canFlipDeck |-> canFlipDeck]>>
            /\ pc' = "call"
  /\ UNCHANGED <<input, callerVars, FLAGS_state_cache_size,
                 FLAGS_move_cache_size, clock, _game, _startTime, _timeout,
                 _stateCache, _tableauMoveCache, _numCalls, ret, result,
                 deadlineHit, winPath, runs, first>>

\* the for loop of _solveImpl has tried every move: return folly::none
LoopEnd ==
  /\ pc = "loop"
  /\ Top.i = Len(Top.moves)
  /\ stack' = Pop
  /\ ret' = None
  /\ pc' = "ret"
  /\ UNCHANGED <<input, callerVars, FLAGS_state_cache_size,
                 FLAGS_move_cache_size, clock, _game, _startTime, _timeout,
                 _stateCache, _tableauMoveCache, _numCalls, seenCardStacks,
                 call, result, deadlineHit, winPath, runs, first>>

\* a faulty variant of InsertAtBegin: the move is added behind the others
InsertAtEnd(remainingMoves, move) == Append(remainingMoves, move)

\* remainingMoves->insert(remainingMoves->begin(), move)
InsertAtBegin(remainingMoves, move) == <<move>> \o remainingMoves

\* _solveImpl has returned to _maybeApplyMove, which erases its stacks and
\* returns to the loop of the caller: that returns the moves, or goes on
Return ==
  /\ pc = "ret"
  /\ stack # <<>>
  /\ seenCardStacks' = seenCardStacks \ Range(Top.newStacks)
  /\ IF ret.some
       THEN /\ ret' = Some(InsertAtBegin(ret.moves, Top.moves[Top.i + 1]))
            /\ stack' = Pop
            /\ pc' = "ret"
       ELSE /\ stack' = [stack EXCEPT ![Len(stack)].i = @ + 1,
                                      ![Len(stack)].newStacks = <<>>]
            /\ pc' = "loop"
            /\ ret' = None
  /\ UNCHANGED <<input, callerVars, FLAGS_state_cache_size,
                 FLAGS_move_cache_size, clock, _game, _startTime, _timeout,
                 _stateCache, _tableauMoveCache, _numCalls, call, result,
                 deadlineHit, winPath, runs, first>>

\* a faulty variant of SolverStatus: the clock is not read again at return
SolverStatusNoRecheck(winningMoves, endTime, startTime, timeout) ==
  IF winningMoves.some THEN SOLVED ELSE NO_SOLUTION

\* result.status as solve() sets it
SolverStatus(winningMoves, endTime, startTime, timeout) ==
  IF winningMoves.some THEN SOLVED
  ELSE IF endTime - startTime >= timeout THEN TIMEOUT
  ELSE NO_SOLUTION

\* the root call has returned: solve() reads the clock and builds the result
SolveReturn ==
  /\ pc = "ret"
  /\ stack = <<>>
  /\ LET endTime == clock
         winningMoves == ret IN
       result' = [status  |-> SolverStatus(winningMoves, endTime, _startTime,
                                           _timeout),
                  elapsed |-> endTime - _startTime,
                  moves   |-> IF winningMoves.some THEN winningMoves.moves ELSE <<>>]
  /\ pc' = "done"
  /\ UNCHANGED <<input, callerVars, FLAGS_state_cache_size,
                 FLAGS_move_cache_size, clock, _game, _startTime, _timeout,
                 _stateCache, _tableauMoveCache, _numCalls, seenCardStacks,
                 stack, call, ret, deadlineHit, winPath, runs, first>>

\* a faulty variant of Tick: the clock read is one that can be set back
TickSetBack ==
  /\ pc = "call" \/ (pc = "ret" /\ stack = <<>>)
  /\ clock' \in (0 .. MaxClock) \ {clock}
  /\ UNCHANGED <<input, callerVars, FLAGS_state_cache_size,
                 FLAGS_move_cache_size, _game, _startTime, _timeout,
                 _stateCache, _tableauMoveCache, _numCalls, seenCardStacks,
                 stack, call, ret, pc, result, deadlineHit, winPath, runs,
                 first>>

\* time passes; the clock is read on entry to _solveImpl and when the root
\* call has returned, and it advances between two readings
Tick ==
  /\ pc = "call" \/ (pc = "ret" /\ stack = <<>>)
  /\ clock < MaxClock
  /\ clock' = clock + 1
  /\ UNCHANGED <<input, callerVars, FLAGS_state_cache_size,
                 FLAGS_move_cache_size, _game, _startTime, _timeout,
                 _stateCache, _tableauMoveCache, _numCalls, seenCardStacks,
                 stack, call, ret, pc, result, deadlineHit, winPath, runs,
                 first>>

\* the deck is solved again by a process started with other cache sizes
Rerun ==
  /\ pc = "done"
  /\ numApplied = 0
  /\ runs < MaxRuns
  /\ \E sz \in input.sizes :
       /\ sz # <<FLAGS_state_cache_size, FLAGS_move_cache_size>>
       /\ FLAGS_state_cache_size' = sz[1]
       /\ FLAGS_move_cache_size' = sz[2]
  /\ first' = Append(first, [result |-> result, deadlineHit |-> deadlineHit])
  /\ clock' = 0
  /\ _startTime' = 0
  /\ _stateCache' = <<>>
  /\ _tableauMoveCache' = <<>>
  /\ _numCalls' = 0
  /\ seenCardStacks' = {}
  /\ result' = NoResult
  /\ deadlineHit' = FALSE
  /\ winPath' = <<>>
  /\ ret' = None
  /\ pc' = "idle"
  /\ UNCHANGED <<input, callerVars, _game, _timeout, stack, call, runs>>

\* the caller builds a Solver on the game it has won, right after the last
\* move of the solution or when it has played the game out, with the timeout
\* of the process or with --timeout 0: Solver::Solver(game, timeout)
NewSolver ==
  /\ Replayed
  /\ isWon(game)
  /\ numApplied = Len(result.moves)
       \/ \A s \in Suits : game.foundation[s] = NUM_RANKS - 1
  /\ runs < MaxRuns
  /\ _game' = game
  /\ _timeout' \in {0, input.timeout}
  /\ _stateCache' = <<>>
  /\ _tableauMoveCache' = <<>>
  /\ _numCalls' = 0
  /\ result' = NoResult
  /\ deadlineHit' = FALSE
  /\ winPath' = <<>>
  /\ ret' = None
  /\ pc' = "built"
  /\ UNCHANGED <<input, callerVars, FLAGS_state_cache_size,
                 FLAGS_move_cache_size, clock, _startTime, seenCardStacks,
                 stack, call, runs, first>>

Next ==
  \/ Draw
  \/ WasteToFoundation
  \/ WasteToTableau
  \/ TableauToFoundation
  \/ TableauToTableau
  \/ Replay
  \/ Solve
  \/ SolveImpl
  \/ MaybeApplyMove
  \/ LoopEnd
  \/ Return
  \/ SolveReturn
  \/ Tick
  \/ Rerun
  \/ NewSolver

Spec == Init /\ [][Next]_vars

(***************************************************************************)
(* Properties                                                              *)
(***************************************************************************)
\* the game a caller builds from the deck and the draw size of the process
FreshGame == NewSolitaire(input.deck, input.drawSize)

\* the moves of a list applied in order to a game
RECURSIVE ApplyAll(_, _, _)
ApplyAll(g, moves, n) ==
  IF n = 0 THEN g ELSE apply(ApplyAll(g, moves, n - 1), moves[n])

\* C1: when solve() returns SOLVED, result.moves is the list of the moves the
\* search applied from the root to the won state; replayed on a fresh game
\* of the same deck, every move is valid when its turn comes, and the game
\* after the last move is won.
C1_ReplayWins ==
  (pc = "done" /\ result.status = SOLVED) =>
    /\ result.moves = winPath
    /\ numApplied <= Len(result.moves) =>
         game = ApplyAll(FreshGame, result.moves, numApplied)
    /\ numApplied < Len(result.moves) =>
         isValid(game, result.moves[numApplied + 1])
    /\ numApplied = Len(result.moves) => isWon(game)

\* a win found after backtracking has been replayed to its last move
C1_Witness ==
  /\ pc = "done"
  /\ result.status = SOLVED
  /\ input.deck = DeckBack
  /\ _numCalls > Len(result.moves) + 1
  /\ numApplied = Len(result.moves)
  /\ lastMove = <<result.moves[Len(result.moves)]>>
  /\ isWon(game)

\* the move the loop of the top frame tries next
NextMove == Top.moves[Top.i + 1]

\* the move is one that _addAceMoves emits for the game
IsAceMove(g, move) == \E k \in 1 .. Len(_addAceMoves(g)) : _addAceMoves(g)[k] = move

\* C2: every move that _maybeApplyMove applies to the game of its caller is
\* valid on that game, whichever group of the generator produced it, the
\* Ace moves and the moves served from the tableau-move cache included.
C2_AppliedMovesValid ==
  (pc = "loop" /\ Top.i < Len(Top.moves)
     /\ ~FlipPruned(Top.game, NextMove, Top.canFlipDeck)) =>
    isValid(Top.game, NextMove)

\* a non-revealing tableau move served from the cache is about to be
\* applied, on a path that holds an Ace move
C2_Witness ==
  /\ pc = "loop"
  /\ Top.i < Len(Top.moves)
  /\ Top.cacheHit
  /\ NextMove.type = TABLEAU_TO_TABLEAU
  /\ Extra(NextMove, 1) >= 1
  /\ ~StackPruned(NewStacks(apply(Top.game, NextMove), NextMove), seenCardStacks)
  /\ \E k \in 1 .. (Len(stack) - 1) :
       IsAceMove(stack[k].game, stack[k].moves[stack[k].i + 1])

\* C3: solve() reports NO_SOLUTION only when no call of _solveImpl returned
\* at its deadline check; it reports TIMEOUT exactly when the root call
\* returned no list and the clock read at return is at or past the deadline;
\* with either status the list of moves is empty.
C3_TimeoutAndNoSolution ==
  pc = "done" =>
    /\ result.status = NO_SOLUTION => ~deadlineHit
    /\ result.status = TIMEOUT <=>
         (~ret.some /\ clock - _startTime >= _timeout)
    /\ result.status \in {TIMEOUT, NO_SOLUTION} => result.moves = <<>>
    /\ result.elapsed = clock - _startTime

\* the deadline passed in the middle of a search that would have ended
\* without a solution
C3_Witness ==
  /\ pc = "done"
  /\ input.deck = DeckStuck
  /\ result.status = TIMEOUT
  /\ deadlineHit
  /\ _numCalls > 10
  /\ result.moves = <<>>

\* the games the program holds: the caller's game, the game of the _solveImpl
\* frame on top of the stack, and the game passed to the call just made
HeldGames ==
  {game} \cup {call[k].game : k \in 1 .. Len(call)}
         \cup {stack[k].game : k \in {j \in DOMAIN stack : j = Len(stack)}}

\* no column has face-down cards under an empty face-up stack
NoCoveredColumn(g) ==
  \A c \in Columns :
    Len(g.tableau[c].faceUp) = 0 => Len(g.tableau[c].faceDown) = 0

\* C4: in every state reached by valid moves, a column whose face-up stack
\* is empty has no face-down cards, and a second exposure pass changes
\* nothing.
C4_ExposureComplete ==
  \A g \in HeldGames : NoCoveredColumn(g) /\ expose(g) = g

\* the caller has just moved the whole face-up stack of a column away and
\* the pass has turned over the card below it
C4_Witness ==
  /\ lastMove # <<>>
  /\ lastMove[1].type = TABLEAU_TO_TABLEAU
  /\ Extra(lastMove[1], 1) = 0
  /\ LET column == game.tableau[Extra(lastMove[1], 0)] IN
       /\ Len(column.faceUp) = 1
       /\ Len(column.faceDown) = Extra(lastMove[1], 0) - 1
       /\ Len(column.faceDown) > 0

\* adjacent cards of a face-up stack: one rank down, the other colour
Alternates(faceUp) ==
  \A i \in 1 .. (Len(faceUp) - 1) :
    /\ rank(faceUp[i + 1]) = rank(faceUp[i]) - 1
    /\ areDifferentColors(faceUp[i + 1], faceUp[i])

\* C5: in every state reached by valid moves, each face-up stack descends
\* by one rank per card, bottom to top, with alternating colours.
C5_StacksAlternate ==
  \A g \in HeldGames : \A c \in Columns : Alternates(g.tableau[c].faceUp)

\* the caller has just moved a suffix that starts above row 0 onto a
\* column, which now holds at least three face-up cards
C5_Witness ==
  /\ lastMove # <<>>
  /\ lastMove[1].type = TABLEAU_TO_TABLEAU
  /\ Extra(lastMove[1], 1) >= 1
  /\ Len(game.tableau[Extra(lastMove[1], 2)].faceUp) >= 3
  /\ Len(game.tableau[Extra(lastMove[1], 0)].faceUp) >= 1

\* the cards of a game that are off the foundations, place by place
HandCards(g) == [i \in 1 .. g.handSize |-> g.hand[i - 1]]

TableauCards(g) ==
  Flatten([k \in 1 .. TABLEAU_SIZE |->
             g.tableau[k - 1].faceDown \o g.tableau[k - 1].faceUp])

CardsInPlay(g) == HandCards(g) \o TableauCards(g)

\* the cards the foundations stand for: rank 0 .. foundation[s] of suit s
FoundationCards(g) ==
  {c \in 0 .. (NUM_CARDS - 1) : rank(c) <= g.foundation[suit(c)]}

\* C6: in every state reached by valid moves from a deck of 52 distinct
\* cards, the foundations, the hand and waste, and the face-up and face-down
\* stacks hold 52 cards together, and no card is in two places.
C6_CardsConserved ==
  \A g \in HeldGames :
    /\ Cardinality(FoundationCards(g)) + Len(CardsInPlay(g)) = NUM_CARDS
    /\ Cardinality(Range(CardsInPlay(g))) = Len(CardsInPlay(g))
    /\ FoundationCards(g) \cap Range(CardsInPlay(g)) = {}
    /\ FoundationCards(g) \cup Range(CardsInPlay(g)) = 0 .. (NUM_CARDS - 1)

\* the caller has played a card off a waste of several cards, has played to
\* a foundation and has moved a stack in the tableau
C6_Witness ==
  /\ wasteOut >= 1
  /\ game.wasteSize >= 1
  /\ \E s \in Suits : game.foundation[s] >= 0
  /\ lastMove # <<>>
  /\ lastMove[1].type = TABLEAU_TO_TABLEAU
  /\ \E c \in Columns : Len(game.tableau[c].faceDown) < c

\* foundation[s] is -1 (empty) or a rank, and every card of suit s that is
\* still in the hand, the waste or the tableau has a higher rank
FoundationSound(g) ==
  /\ \A s \in Suits : g.foundation[s] \in -1 .. (NUM_RANKS - 1)
  /\ \A c \in Range(CardsInPlay(g)) : rank(c) > g.foundation[suit(c)]

\* what a move that leads from g to g2 does to the foundations
FoundationStep(g, move, g2) ==
  /\ \A s \in Suits : g2.foundation[s] >= g.foundation[s]
  /\ IF move.type \in {WASTE_TO_FOUNDATION, TABLEAU_TO_FOUNDATION}
       THEN \E s \in Suits :
              /\ g2.foundation[s] = g.foundation[s] + 1
              /\ \A t \in Suits \ {s} : g2.foundation[t] = g.foundation[t]
       ELSE g2.foundation = g.foundation

\* the moves applied in a step: by the caller to its game, by
\* _maybeApplyMove to the clone of the game of its caller
C7_Step ==
  /\ numApplied' = numApplied + 1 => FoundationStep(game, lastMove'[1], game')
  /\ (pc = "loop" /\ pc' = "call") =>
       FoundationStep(Top.game, NextMove, call'[1].game)

C7_State == \A g \in HeldGames : FoundationSound(g)

\* C7: in every reachable state foundation[s] is in -1 .. 12 and no card of
\* suit s with a rank up to foundation[s] is left in the hand, the waste or
\* the tableau; a valid WASTE_TO_FOUNDATION or TABLEAU_TO_FOUNDATION raises
\* one suit's value by one and leaves the others, and no move lowers a value.
C7_FoundationsGrow == []C7_State /\ [][C7_Step]_vars

\* the caller has just played a card of rank 1 or more from the waste to a
\* foundation, and another suit's foundation is not empty
C7_Witness ==
  /\ lastMove = <<Move(WASTE_TO_FOUNDATION, NoExtra, NoExtra, NoExtra)>>
  /\ \E s \in Suits, t \in Suits :
       s # t /\ game.foundation[s] >= 1 /\ game.foundation[t] >= 0

\* the WASTE_TO_FOUNDATION and WASTE_TO_TABLEAU moves among the moves the
\* frames 1 .. n of the stack are trying
PathWasteOut(n) ==
  Cardinality({k \in 1 .. n :
                 stack[k].moves[stack[k].i + 1].type
                   \in {WASTE_TO_FOUNDATION, WASTE_TO_TABLEAU}})

HandSizesSound(g, out) ==
  /\ 0 <= g.wasteSize
  /\ g.wasteSize <= g.handSize
  /\ g.handSize <= MAX_HAND_SIZE
  /\ g.handSize = MAX_HAND_SIZE - out

\* the plays from the waste that were applied to the game of the solver
\* before the solver was built on it: none for the game as dealt, the
\* caller's for a game the caller has played
RootWasteOut == IF _game = FreshGame THEN 0 ELSE wasteOut

\* C8: in every state reached by valid moves 0 <= wasteSize <= handSize <= 24
\* and handSize is 24 less the WASTE_TO_FOUNDATION and WASTE_TO_TABLEAU
\* moves applied so far, so that no other move changes handSize.  The moves
\* applied so far are the caller's for its game, and for a game of the
\* search those applied to the solver's game and those on the path from the
\* root.
C8_HandSizes ==
  /\ HandSizesSound(game, wasteOut)
  /\ stack # <<>> =>
       HandSizesSound(Top.game, RootWasteOut + PathWasteOut(Len(stack) - 1))
  /\ call # <<>> =>
       HandSizesSound(call[1].game, RootWasteOut + PathWasteOut(Len(stack)))

\* the search has played from the waste and has drawn through the hand: the
\* waste of the game it passes on is the whole hand
C8_Witness ==
  /\ pc = "call"
  /\ call[1].game.handSize < MAX_HAND_SIZE
  /\ call[1].game.wasteSize = call[1].game.handSize
  /\ call[1].game.handSize > 0
  /\ Top.moves[Top.i + 1].type = DRAW

\* all four foundations are at the King
AllKings(g) == \A s \in Suits : g.foundation[s] = NUM_RANKS - 1

\* the columns a valid TABLEAU_TO_FOUNDATION can be played from
ToFoundationColumns(g) ==
  {c \in Columns :
     isValid(g, Move(TABLEAU_TO_FOUNDATION, c, NoExtra, NoExtra))}

\* up to n valid TABLEAU_TO_FOUNDATION moves, each from the lowest column
\* that offers one
RECURSIVE FillFoundations(_, _)
FillFoundations(g, n) ==
  IF n = 0 \/ ToFoundationColumns(g) = {} THEN g
  ELSE LET c == CHOOSE c \in ToFoundationColumns(g) :
                  \A d \in ToFoundationColumns(g) : c <= d IN
         FillFoundations(
           apply(g, Move(TABLEAU_TO_FOUNDATION, c, NoExtra, NoExtra)), n - 1)

\* C9: in every reachable state in which isWon() is true, either all four
\* foundations are at the King or a TABLEAU_TO_FOUNDATION move is valid, so
\* that playing valid TABLEAU_TO_FOUNDATION moves in any order never gets
\* stuck; and a sequence of such moves ends with all foundations at the King.
C9_WonCanBeFinished ==
  \A g \in HeldGames :
    isWon(g) =>
      /\ AllKings(g) \/ ToFoundationColumns(g) # {}
      /\ AllKings(FillFoundations(g, NUM_CARDS))

\* the caller has replayed a solution and has then played the tableau to
\* the foundations, up to the last King
C9_Witness ==
  /\ pc = "done"
  /\ result.status = SOLVED
  /\ numApplied > Len(result.moves)
  /\ lastMove # <<>>
  /\ lastMove[1].type = TABLEAU_TO_FOUNDATION
  /\ isWon(game)
  /\ AllKings(game)

\* a run of the solver is over: solve() has returned, or the recursion has
\* used up the call stack of the process
RunOver == pc = "done" \/ pc = "overflow"

\* C10: the deck of a process solved a second time with other capacities of
\* the two caches, the deadline reached in neither run: the second run
\* returns, and with the status of the first.
C10_SameStatus ==
  (/\ Len(first) >= 1
   /\ RunOver
   /\ ~first[1].deadlineHit
   /\ first[1].result.status # TIMEOUT
   /\ ~deadlineHit
   /\ clock - _startTime < _timeout) =>
    /\ pc = "done"
    /\ result.status = first[1].result.status

(***************************************************************************)
(* The game alone: a caller builds a Solitaire from a deck and a draw size *)
(* and plays valid moves; no solver is started.                            *)
(***************************************************************************)
GameInputs ==
  {Input(d, ds, DEFAULT_TIMEOUT, {DefaultSizes}) :
     d \in {DeckSorted, DeckPlay, DeckBack, DeckCache}, ds \in {1, 3, MAX_HAND_SIZE}}

InitGame ==
  /\ input \in GameInputs
  /\ game = NewSolitaire(input.deck, input.drawSize)
  /\ numApplied = 0
  /\ wasteOut = 0
  /\ lastMove = <<>>
  /\ FLAGS_state_cache_size = DEFAULT_STATE_CACHE_SIZE
  /\ FLAGS_move_cache_size = DEFAULT_MOVE_CACHE_SIZE
  /\ clock = 0
  /\ SolverInit(game, input.timeout)
  /\ _startTime = 0
  /\ seenCardStacks = {}
  /\ stack = <<>>
  /\ call = <<>>
  /\ ret = None
  /\ pc = "idle"
  /\ result = NoResult
  /\ deadlineHit = FALSE
  /\ winPath = <<>>
  /\ runs = 0
  /\ first = <<>>

NextGame ==
  \/ Draw
  \/ WasteToFoundation
  \/ WasteToTableau
  \/ TableauToFoundation
  \/ TableauToTableau

SpecGame == InitGame /\ [][NextGame]_vars

\* the extras a caller can put in a move of a game: each column index and
\* each row index of the source column, one value below and one above either
\* range, and the last index of a face-up array
ProbeColumns == -1 .. TABLEAU_SIZE

ProbeRows(g, c) ==
  {-1, NUM_RANKS - 1, NUM_RANKS}
    \cup (IF c \in Columns THEN 0 .. Len(g.tableau[c].faceUp) ELSE {0})

ProbeMoves(g) ==
  {Move(DRAW, NoExtra, NoExtra, NoExtra),
   Move(WASTE_TO_FOUNDATION, NoExtra, NoExtra, NoExtra)}
    \cup {Move(WASTE_TO_TABLEAU, d, NoExtra, NoExtra) : d \in ProbeColumns}
    \cup {Move(TABLEAU_TO_FOUNDATION, c, NoExtra, NoExtra) : c \in ProbeColumns}
    \cup UNION {{Move(TABLEAU_TO_TABLEAU, c, r, d) :
                   r \in ProbeRows(g, c), d \in ProbeColumns} :
                c \in ProbeColumns}

\* the waste: the last wasteSize cards of the hand/waste sequence
Waste(g) == SubSeq(HandCards(g), g.handSize - g.wasteSize + 1, g.handSize)

\* the card of the waste that is in play: the one drawn last, which is the
\* first card of the waste in the order of the sequence
TopOfWaste(g) == Head(Waste(g))

\* a card may be put on a face-up stack: a King on an empty one, otherwise a
\* card of the other colour, one rank below the top card of the stack
MayGoOn(card, faceUp) ==
  IF faceUp = <<>> THEN rank(card) = NUM_RANKS - 1
  ELSE /\ isBlack(card) # isBlack(faceUp[Len(faceUp)])
       /\ rank(card) + 1 = rank(faceUp[Len(faceUp)])

\* a card is the next one of its suit's foundation
NextOnFoundation(g, card) == rank(card) = g.foundation[suit(card)] + 1

\* the rule of the game for a move, by the kind of the move
Rule(g, move) ==
  LET e0 == move.extras[1]
      e1 == move.extras[2]
      e2 == move.extras[3] IN
    CASE move.type = DRAW -> HandCards(g) # <<>>
      [] move.type = WASTE_TO_FOUNDATION ->
           Waste(g) # <<>> /\ NextOnFoundation(g, TopOfWaste(g))
      [] move.type = WASTE_TO_TABLEAU ->
           /\ Waste(g) # <<>>
           /\ e0 \in Columns
           /\ MayGoOn(TopOfWaste(g), g.tableau[e0].faceUp)
      [] move.type = TABLEAU_TO_FOUNDATION ->
           /\ e0 \in Columns
           /\ g.tableau[e0].faceUp # <<>>
           /\ NextOnFoundation(g, g.tableau[e0].faceUp[Len(g.tableau[e0].faceUp)])
      [] move.type = TABLEAU_TO_TABLEAU ->
           /\ e0 \in Columns
           /\ e2 \in Columns
           /\ e1 \in 0 .. (Len(g.tableau[e0].faceUp) - 1)
           /\ MayGoOn(g.tableau[e0].faceUp[e1 + 1], g.tableau[e2].faceUp)

\* C11: isValid(move) is true exactly when the rule for the kind of the move
\* holds: DRAW iff the talon is not empty; WASTE_TO_FOUNDATION iff the waste
\* is not empty and its top card is the next of its foundation;
\* TABLEAU_TO_FOUNDATION(src) iff the face-up stack of src is not empty and
\* its top card is the next of its foundation; WASTE_TO_TABLEAU(dst) and
\* TABLEAU_TO_TABLEAU(src, row, dst) iff the moved card is a King when the
\* face-up stack of dst is empty, and otherwise is of the other colour than
\* and one rank below the top card of dst.
C11_IsValidIffRule ==
  \A move \in ProbeMoves(game) : isValid(game, move) <=> Rule(game, move)

\* the caller has emptied a column and has a waste of several cards; a DRAW,
\* a move from the waste and a move of a tableau column are valid, and a
\* move of a card that is not a King onto the empty column is not
C11_Witness ==
  /\ numApplied >= 2
  /\ game.wasteSize >= 2
  /\ isValid(game, Move(DRAW, NoExtra, NoExtra, NoExtra))
  /\ \/ isValid(game, Move(WASTE_TO_FOUNDATION, NoExtra, NoExtra, NoExtra))
     \/ \E d \in Columns :
          isValid(game, Move(WASTE_TO_TABLEAU, d, NoExtra, NoExtra))
  /\ \E c \in Columns, d \in Columns :
       isValid(game, Move(TABLEAU_TO_TABLEAU, c, 0, d))
  /\ \E c \in Columns, d \in Columns :
       /\ game.tableau[d].faceUp = <<>>
       /\ game.tableau[c].faceUp # <<>>
       /\ ~isValid(game, Move(TABLEAU_TO_TABLEAU, c, 0, d))

\* an extra of the move is outside its range: a column index that is not
\* in 0 .. 6 (the -1 of an unused extra included), or a row index that is not
\* an index of the face-up stack of the source column
ExtrasOutOfRange(g, move) ==
  CASE move.type \in {WASTE_TO_TABLEAU, TABLEAU_TO_FOUNDATION} ->
         move.extras[1] \notin Columns
    [] move.type = TABLEAU_TO_TABLEAU ->
         \/ move.extras[1] \notin Columns
         \/ move.extras[3] \notin Columns
         \/ move.extras[2] \notin 0 .. (Len(g.tableau[move.extras[1]].faceUp) - 1)
    [] OTHER -> FALSE

\* C12: isValid leaves the game as it is and gives one answer for one game
\* and move (it is a const member function; the model has it as an operator
\* of the game and the move).  For a move with an extra outside its range,
\* the -1 of an unused extra, a column index below 0 or above 6, a row index
\* below 0 or not below the size of the source's face-up stack, it returns
\* false, and every array element it reads lies inside its array.
C12_OutOfRangeIsInvalid ==
  /\ \A move \in ProbeMoves(game) :
       \A r \in isValidReads(game, move) : 0 <= r.index /\ r.index < r.size
  /\ \A move \in ProbeMoves(game) :
       ExtrasOutOfRange(game, move) => ~isValid(game, move)

\* the caller's game has a waste, and a face-up stack of which a suffix can
\* be moved: the same move is refused with the row below 0, with the row at
\* the size of the stack, and with a column of -1 or 7
C12_Witness ==
  /\ numApplied >= 1
  /\ game.wasteSize >= 1
  /\ \E c \in Columns, d \in Columns :
       /\ Len(game.tableau[c].faceUp) >= 2
       /\ isValid(game, Move(TABLEAU_TO_TABLEAU, c, 1, d))
       /\ ~isValid(game, Move(TABLEAU_TO_TABLEAU, c, -1, d))
       /\ ~isValid(game, Move(TABLEAU_TO_TABLEAU, c, Len(game.tableau[c].faceUp), d))
       /\ ~isValid(game, Move(TABLEAU_TO_TABLEAU, c, 1, TABLEAU_SIZE))
       /\ ~isValid(game, Move(TABLEAU_TO_TABLEAU, -1, 1, d))
  /\ ~isValid(game, Move(WASTE_TO_TABLEAU, NoExtra, NoExtra, NoExtra))

\* what solve() leaves behind when the game of the solver is won: SOLVED
\* with no moves, nothing in the state cache, no moves generated (no call
\* counted, no frame in its loop, nothing in the tableau-move cache)
WonAtEntry ==
  /\ _stateCache = <<>>
  /\ _tableauMoveCache = <<>>
  /\ _numCalls = 0
  /\ stack = <<>>
  /\ pc = "done" => result.status = SOLVED /\ result.moves = <<>>

\* no call of _solveImpl has gone on to its loop with a game that is won
WonNotSearched == \A k \in DOMAIN stack : ~isWon(stack[k].game)

\* C13 as stated: whenever the game given to the solver satisfies isWon(),
\* solve() returns SOLVED with an empty list of moves, inserts nothing into
\* the state cache and generates no moves.
C13_WonReturnsSolved == isWon(_game) => WonAtEntry

\* C13, amended: _solveImpl returns the empty list for a won game without
\* inserting into the state cache and without generating moves, provided
\* its deadline test, which comes first, does not fire; so when the game
\* given to the solver is won, solve() returns SOLVED with no moves unless
\* the deadline has passed when the root call reads the clock (as it always
\* has with a timeout of 0), in which case it returns TIMEOUT.
C13_WonReturnsSolvedInTime ==
  /\ WonNotSearched
  /\ isWon(_game) =>
       /\ _stateCache = <<>>
       /\ _tableauMoveCache = <<>>
       /\ _numCalls = 0
       /\ stack = <<>>
       /\ pc = "done" =>
            IF deadlineHit
              THEN result.status = TIMEOUT /\ result.moves = <<>>
              ELSE result.status = SOLVED /\ result.moves = <<>>

\* a solver built on a won game that still has cards in the tableau has
\* returned SOLVED; a TABLEAU_TO_FOUNDATION move was there to be generated
C13_Witness ==
  /\ pc = "done"
  /\ isWon(_game)
  /\ _game = game
  /\ ~deadlineHit
  /\ _timeout > 0
  /\ result.status = SOLVED
  /\ result.moves = <<>>
  /\ ToFoundationColumns(_game) # {}

\* C14: after construction from a deck of 52 cards the hand is deck[0 .. 23]
\* in deck order with handSize 24 and wasteSize 0, the four foundations are
\* empty, column i has i face-down cards and one face-up card, and the
\* tableau holds exactly the cards deck[24 .. 51].
C14_Construction ==
  numApplied = 0 =>
    /\ game.handSize = MAX_HAND_SIZE
    /\ game.wasteSize = 0
    /\ \A i \in 0 .. (MAX_HAND_SIZE - 1) : game.hand[i] = input.deck[i]
    /\ \A s \in Suits : game.foundation[s] = -1
    /\ \A i \in Columns :
         /\ Len(game.tableau[i].faceDown) = i
         /\ Len(game.tableau[i].faceUp) = 1
    /\ Len(TableauCards(game)) = NUM_CARDS - MAX_HAND_SIZE
    /\ Range(TableauCards(game)) =
         {input.deck[i] : i \in MAX_HAND_SIZE .. (NUM_CARDS - 1)}

\* a game has been built from a shuffled deck and nothing has been played
C14_Witness ==
  /\ numApplied = 0
  /\ lastMove = <<>>
  /\ input.deck = DeckPlay
  /\ game.drawSize = input.drawSize
  /\ game.hand[0] = DeckPlay[0]
  /\ Len(game.tableau[TABLEAU_SIZE - 1].faceDown) = TABLEAU_SIZE - 1
  /\ game.tableau[0].faceUp = <<DeckPlay[NUM_CARDS - 1]>>

\* the cards a move takes out of the hand/waste sequence of a game
TakenFromHand(g, move) == Range(HandCards(g)) \ Range(HandCards(apply(g, move)))

\* card is the one card of the waste that WASTE_TO_FOUNDATION and
\* WASTE_TO_TABLEAU test and move
IsPlayedWasteCard(g, card) ==
  LET toFoundation == Move(WASTE_TO_FOUNDATION, NoExtra, NoExtra, NoExtra) IN
    /\ isValid(g, toFoundation) <=> NextOnFoundation(g, card)
    /\ isValid(g, toFoundation) =>
         /\ TakenFromHand(g, toFoundation) = {card}
         /\ apply(g, toFoundation).foundation[suit(card)] = rank(card)
    /\ \A d \in Columns :
         LET toTableau == Move(WASTE_TO_TABLEAU, d, NoExtra, NoExtra) IN
           /\ isValid(g, toTableau) <=> MayGoOn(card, g.tableau[d].faceUp)
           /\ isValid(g, toTableau) =>
                /\ TakenFromHand(g, toTableau) = {card}
                /\ Last(apply(g, toTableau).tableau[d].faceUp) = card

\* the waste is the last wasteSize cards of the sequence: a move from the
\* waste leaves the cards before the waste as they are and takes one card
\* from the waste, and a DRAW leaves the sequence as it is
WasteIsSuffix(g) ==
  /\ Len(Waste(g)) = g.wasteSize
  /\ \A move \in {Move(WASTE_TO_FOUNDATION, NoExtra, NoExtra, NoExtra)}
                   \cup {Move(WASTE_TO_TABLEAU, d, NoExtra, NoExtra) : d \in Columns} :
       isValid(g, move) =>
         LET g2 == apply(g, move) IN
           /\ SubSeq(HandCards(g2), 1, g2.handSize - g2.wasteSize)
                = SubSeq(HandCards(g), 1, g.handSize - g.wasteSize)
           /\ Range(Waste(g2)) \subseteq Range(Waste(g))
           /\ Len(Waste(g2)) = Len(Waste(g)) - 1
  /\ isValid(g, Move(DRAW, NoExtra, NoExtra, NoExtra)) =>
       HandCards(apply(g, Move(DRAW, NoExtra, NoExtra, NoExtra))) = HandCards(g)

\* C15 as stated: the waste is the last wasteSize cards of the hand/waste
\* sequence, and the top of the waste, the one card that WASTE_TO_FOUNDATION
\* and WASTE_TO_TABLEAU test and move, is the last element of that sequence.
C15_WasteTopIsLast ==
  /\ WasteIsSuffix(game)
  /\ game.wasteSize >= 1 => IsPlayedWasteCard(game, Last(HandCards(game)))

\* C15, amended: the waste is the last wasteSize cards of the hand/waste
\* sequence, and the top of the waste, the one card that WASTE_TO_FOUNDATION
\* and WASTE_TO_TABLEAU test and move, is the first of these cards, the
\* element at index handSize - wasteSize; it is the last element of the
\* sequence only when the waste holds one card.
C15_WasteTopIsFirstOfWaste ==
  /\ WasteIsSuffix(game)
  /\ game.wasteSize >= 1 =>
       /\ IsPlayedWasteCard(game, game.hand[game.handSize - game.wasteSize])
       /\ game.hand[game.handSize - game.wasteSize] = TopOfWaste(game)
       /\ (game.wasteSize = 1 => TopOfWaste(game) = Last(HandCards(game)))

\* the caller has just played a card from a waste of several cards, and can
\* play the next card of the waste as well
C15_Witness ==
  /\ lastMove # <<>>
  /\ lastMove[1].type \in {WASTE_TO_FOUNDATION, WASTE_TO_TABLEAU}
  /\ game.wasteSize >= 2
  /\ TopOfWaste(game) # Last(HandCards(game))
  /\ \/ isValid(game, Move(WASTE_TO_FOUNDATION, NoExtra, NoExtra, NoExtra))
     \/ \E d \in Columns :
          isValid(game, Move(WASTE_TO_TABLEAU, d, NoExtra, NoExtra))

\* the frames of the stack whose move _maybeApplyMove has applied: all of
\* them but the top one while that is between two moves of its loop
AppliedFrames ==
  IF pc \in {"call", "ret"} THEN 1 .. Len(stack) ELSE 1 .. (Len(stack) - 1)

\* the move that frame k of the stack has applied
AppliedMove(k) == stack[k].moves[stack[k].i + 1]

\* frame k has applied a recycling DRAW: a DRAW on a game whose waste is the
\* whole hand
Recycles(k) ==
  /\ AppliedMove(k).type = DRAW
  /\ stack[k].game.wasteSize = stack[k].game.handSize

\* canFlipDeck as the call made by frame k has received it
PassedCanFlipDeck(k) ==
  IF k < Len(stack) THEN <<stack[k + 1].canFlipDeck>>
  ELSE [j \in 1 .. Len(call) |-> call[j].canFlipDeck]

\* frame k has played a card from the waste
PlaysWaste(k) == AppliedMove(k).type \in {WASTE_TO_FOUNDATION, WASTE_TO_TABLEAU}

\* C16: on every search path _maybeApplyMove applies a recycling DRAW only
\* when canFlipDeck is true, and recurses with canFlipDeck false; so two
\* recycling DRAWs never occur on one path without a WASTE_TO_FOUNDATION or
\* WASTE_TO_TABLEAU between them, and the first recycling DRAW from the root
\* comes after a play from the waste.
C16_RecyclingNeedsCanFlipDeck ==
  \A k \in AppliedFrames :
    Recycles(k) =>
      /\ stack[k].canFlipDeck
      /\ \A j \in 1 .. Len(PassedCanFlipDeck(k)) : ~PassedCanFlipDeck(k)[j]
      /\ \E w \in 1 .. (k - 1) :
           /\ PlaysWaste(w)
           /\ \A r \in (w + 1) .. (k - 1) : ~Recycles(r)

\* a step in which _maybeApplyMove returns: after the call of _solveImpl it
\* made has returned, or at once when it prunes the move
C17_Step ==
  /\ (pc = "ret" /\ stack # <<>>) => seenCardStacks' = Top.seenOnEntry
  /\ (pc = "loop" /\ pc' = "loop") => seenCardStacks' = seenCardStacks

\* C17: when _maybeApplyMove returns, whether it pruned, failed or found a
\* win, seenCardStacks holds exactly the stacks it held when the call was
\* entered, also when one of the two new stacks was in the set on entry.
C17_SeenStacksRestored == [][C17_Step]_vars

(***************************************************************************)
(* Two games of one deal: a caller plays a game and builds a Solver on it  *)
(* at some point, which copies the game, and plays on.  The solver's copy  *)
(* and the caller's game are then two states of the same deal.             *)
(***************************************************************************)
TwinInputs == {Input(DeckPlay, 3, DEFAULT_TIMEOUT, {DefaultSizes})}

InitTwin ==
  /\ input \in TwinInputs
  /\ game = NewSolitaire(input.deck, input.drawSize)
  /\ numApplied = 0
  /\ wasteOut = 0
  /\ lastMove = <<>>
  /\ FLAGS_state_cache_size = DEFAULT_STATE_CACHE_SIZE
  /\ FLAGS_move_cache_size = DEFAULT_MOVE_CACHE_SIZE
  /\ clock = 0
  /\ SolverInit(game, input.timeout)
  /\ _startTime = 0
  /\ seenCardStacks = {}
  /\ stack = <<>>
  /\ call = <<>>
  /\ ret = None
  /\ pc = "idle"
  /\ result = NoResult
  /\ deadlineHit = FALSE
  /\ winPath = <<>>
  /\ runs = 0
  /\ first = <<>>

\* Solver solver(game, timeout) on the game as it has been played
Construct ==
  /\ pc = "idle"
  /\ _game # game
  /\ _game' = game
  /\ UNCHANGED <<input, callerVars, FLAGS_state_cache_size,
                 FLAGS_move_cache_size, clock, _startTime, _timeout,
                 _stateCache, _tableauMoveCache, _numCalls, seenCardStacks,
                 stack, call, ret, pc, result, deadlineHit, winPath, runs,
                 first>>

NextTwin ==
  \/ Draw
  \/ WasteToFoundation
  \/ WasteToTableau
  \/ TableauToFoundation
  \/ TableauToTableau
  \/ Construct

SpecTwin == InitTwin /\ [][NextTwin]_vars

\* the columns of a game that hold no card at all
EmptyColumns(g) ==
  {c \in Columns : g.tableau[c].faceDown = <<>> /\ g.tableau[c].faceUp = <<>>}

\* the renaming of the columns of g1 that could make g2 of it: a column with
\* face-down cards keeps its index, a column of face-up cards only goes to
\* the column of g2 that holds the same cards, and the empty columns go to
\* the empty columns of g2 in the order of their indices
Renaming(g1, g2) ==
  [c \in Columns |->
     IF g1.tableau[c].faceDown # <<>> THEN c
     ELSE IF g1.tableau[c].faceUp # <<>>
       THEN IF \E d \in Columns : g2.tableau[d] = g1.tableau[c]
              THEN CHOOSE d \in Columns : g2.tableau[d] = g1.tableau[c]
              ELSE c
     ELSE LET before == Cardinality({e \in EmptyColumns(g1) : e < c})
              to == {d \in EmptyColumns(g2) :
                       Cardinality({e \in EmptyColumns(g2) : e < d}) = before}
          IN IF to = {} THEN c ELSE CHOOSE d \in to : TRUE]

\* g2 is g1 with its columns renamed by p, a permutation of the columns that
\* moves no column with face-down cards; hand, waste and foundations agree
Renamed(g1, g2, p) ==
  /\ \A c \in Columns, d \in Columns : p[c] = p[d] => c = d
  /\ \A c \in Columns : g1.tableau[c].faceDown # <<>> => p[c] = c
  /\ \A c \in Columns : g2.tableau[p[c]] = g1.tableau[c]
  /\ g1.drawSize = g2.drawSize
  /\ HandCards(g1) = HandCards(g2)
  /\ g1.wasteSize = g2.wasteSize
  /\ g1.foundation = g2.foundation

\* a move with its column indices renamed by p
RenamedMove(move, p) ==
  IF move.type \in {WASTE_TO_TABLEAU, TABLEAU_TO_FOUNDATION}
    THEN Move(move.type, p[Extra(move, 0)], NoExtra, NoExtra)
  ELSE IF move.type = TABLEAU_TO_TABLEAU
    THEN Move(move.type, p[Extra(move, 0)], Extra(move, 1), p[Extra(move, 2)])
  ELSE move

\* the moves a caller can make on a game, valid or not, with their extras
\* in range
MovesInRange(g) ==
  {Move(DRAW, NoExtra, NoExtra, NoExtra),
   Move(WASTE_TO_FOUNDATION, NoExtra, NoExtra, NoExtra)}
    \cup {Move(WASTE_TO_TABLEAU, d, NoExtra, NoExtra) : d \in Columns}
    \cup {Move(TABLEAU_TO_FOUNDATION, c, NoExtra, NoExtra) : c \in Columns}
    \cup UNION {{Move(TABLEAU_TO_TABLEAU, c, r, d) :
                   r \in 0 .. (Len(g.tableau[c].faceUp) - 1),
                   d \in Columns \ {c}} :
                c \in Columns}

\* a move is valid on g1 exactly when the renamed move is valid on g2, and
\* the two moves lead to games that are renamed by p and are won together
StepsAlike(g1, g2, p) ==
  \A move \in MovesInRange(g1) :
    /\ isValid(g1, move) <=> isValid(g2, RenamedMove(move, p))
    /\ isValid(g1, move) =>
         LET next1 == apply(g1, move)
             next2 == apply(g2, RenamedMove(move, p)) IN
           /\ Renamed(next1, next2, p)
           /\ isWon(next1) <=> isWon(next2)

\* C18: two states of one deal whose fingerprint input is the same byte
\* string have the same canFlipDeck, waste size, hand and foundations and
\* differ at most by a permutation of the columns without face-down cards;
\* they are won together, and a move can be played on one exactly when it
\* can be played on the other with those columns renamed, which leads to
\* two games that differ by the same permutation: a move sequence that wins
\* from one wins from the other after renaming.
C18_SameStringSameGame ==
  LET solvers == [cf \in BOOLEAN |-> GameCacheStr(_game, cf)]
      callers == [cf \in BOOLEAN |-> GameCacheStr(game, cf)] IN
    \A cf1 \in BOOLEAN, cf2 \in BOOLEAN :
      solvers[cf1] = callers[cf2] =>
        /\ cf1 = cf2
        /\ Renamed(_game, game, Renaming(_game, game))
        /\ isWon(_game) <=> isWon(game)
        /\ StepsAlike(_game, game, Renaming(_game, game))

\* the solver's copy and the caller's game have the same byte string and
\* differ in their columns, and a move is valid on them
C18_Witness ==
  /\ GameCacheStr(_game, FALSE) = GameCacheStr(game, FALSE)
  /\ \E c \in Columns : Renaming(_game, game)[c] # c
  /\ \E c \in Columns : _game.tableau[c].faceUp # game.tableau[c].faceUp
  /\ \E move \in MovesInRange(game) :
       move.type = TABLEAU_TO_TABLEAU /\ isValid(game, move)

\* the moves of a list that _addTableauToTableauMoves has appended: the
\* TABLEAU_TO_TABLEAU moves that follow the DRAW move, or the
\* TABLEAU_TO_TABLEAU moves of a row above 0 when there is no DRAW move
AppendedLast(moves) ==
  LET isDraw(move) == move.type = DRAW
      draws == {i \in 1 .. Len(moves) : isDraw(moves[i])} IN
    IF draws # {} THEN SubSeq(moves, (CHOOSE i \in draws : TRUE) + 1, Len(moves))
    ELSE LET above(move) ==
               move.type = TABLEAU_TO_TABLEAU /\ Extra(move, 1) >= 1 IN
           SelectSeq(moves, above)

\* C19: the list _getValidMoves returns for a game is the list it returns for
\* that game with an empty tableau-move cache, whatever the cache holds and
\* whatever calls came before; the part served from the cache is the list
\* the three loops of _addTableauToTableauMoves produce for that tableau.
C19_MovesOfGameAlone ==
  (pc = "loop" /\ Top.i = 0) =>
    /\ Top.moves = _getValidMoves(Top.game, <<>>)
    /\ Top.cacheHit => AppendedLast(Top.moves) = NonRevealingMoves(Top.game)

\* _getValidMoves has served a list of moves from a cache of several
\* entries, for a game that makes other moves as well
C19_Witness ==
  /\ pc = "loop"
  /\ Top.i = 0
  /\ Top.cacheHit
  /\ NonRevealingMoves(Top.game) # <<>>
  /\ Len(Top.moves) > Len(NonRevealingMoves(Top.game))
  /\ Len(_tableauMoveCache) > 1
  /\ \E k \in 1 .. (Len(stack) - 1) : ~stack[k].cacheHit

\* the group of a move in the list of a game: 1 an Ace to its foundation,
\* 2 another card to its foundation, 3 a whole face-up stack off a column
\* with face-down cards, 4 the waste card to a column, 5 the DRAW move, 6 a
\* part of a face-up stack from row 1 or above; 0 for any other move
MoveGroup(g, move) ==
  IF move.type = WASTE_TO_FOUNDATION
    THEN (IF rank(TopOfWaste(g)) = 0 THEN 1 ELSE 2)
  ELSE IF move.type = TABLEAU_TO_FOUNDATION
    THEN (IF rank(Last(g.tableau[Extra(move, 0)].faceUp)) = 0 THEN 1 ELSE 2)
  ELSE IF move.type = TABLEAU_TO_TABLEAU
    THEN (IF Extra(move, 1) >= 1 THEN 6
          ELSE IF Extra(move, 1) = 0
                    /\ g.tableau[Extra(move, 0)].faceDown # <<>> THEN 3
          ELSE 0)
  ELSE IF move.type = WASTE_TO_TABLEAU THEN 4
  ELSE 5

\* (srcCol, srcRow, dstCol) of lhs comes before that of rhs
ExtrasLess(lhs, rhs) ==
  \/ Extra(lhs, 0) < Extra(rhs, 0)
  \/ /\ Extra(lhs, 0) = Extra(rhs, 0)
     /\ \/ Extra(lhs, 1) < Extra(rhs, 1)
        \/ /\ Extra(lhs, 1) = Extra(rhs, 1)
           /\ Extra(lhs, 2) < Extra(rhs, 2)

\* the groups of a list follow each other in their order, and groups 4, 5
\* and 6 are ordered inside
GroupsInOrder(g, moves) ==
  /\ \A i \in 1 .. Len(moves) : MoveGroup(g, moves[i]) >= 1
  /\ \A i \in 1 .. Len(moves), j \in 1 .. Len(moves) :
       i < j =>
         LET lhs == MoveGroup(g, moves[i])
             rhs == MoveGroup(g, moves[j]) IN
           /\ lhs <= rhs
           /\ (lhs = 4 /\ rhs = 4) => Extra(moves[i], 0) < Extra(moves[j], 0)
           /\ ~(lhs = 5 /\ rhs = 5)
           /\ (lhs = 6 /\ rhs = 6) => ExtrasLess(moves[i], moves[j])

\* a step of the search: a call that enters its loop holds a list in group
\* order and starts at its first move; the calls on the stack keep their
\* lists, and only the innermost one moves on, by one move; the move that
\* is applied is the one at the position of the loop; a call gives up only
\* behind its last move
C20_Step ==
  /\ Len(stack') > Len(stack) =>
       /\ GroupsInOrder(stack'[Len(stack')].game, stack'[Len(stack')].moves)
       /\ stack'[Len(stack')].i = 0
  /\ \A k \in 1 .. Min(Len(stack), Len(stack')) :
       /\ stack'[k].game = stack[k].game
       /\ stack'[k].moves = stack[k].moves
       /\ stack'[k].i = stack[k].i
            \/ (k = Len(stack) /\ stack'[k].i = stack[k].i + 1)
  /\ (pc = "loop" /\ pc' = "call") =>
       /\ call'[1].game = apply(Top.game, Top.moves[Top.i + 1])
       /\ stack'[Len(stack)].i = Top.i
  /\ (pc = "loop" /\ Len(stack') < Len(stack)) => Top.i = Len(Top.moves)

\* C20: the list of _getValidMoves holds its groups one after the other:
\* Ace-to-foundation moves, other to-foundation moves, card-revealing
\* TABLEAU_TO_TABLEAU moves (row 0 of a column with face-down cards),
\* WASTE_TO_TABLEAU moves by ascending destination, the DRAW move, and
\* TABLEAU_TO_TABLEAU moves of a row >= 1 by ascending (srcCol, srcRow,
\* dstCol); _solveImpl tries the moves of the list one by one in that order.
C20_GroupsInOrder == [][C20_Step]_vars

\* the groups of the moves in the list of frame k
GroupsOf(k) ==
  {MoveGroup(stack[k].game, stack[k].moves[i]) : i \in 1 .. Len(stack[k].moves)}

\* the innermost call has tried the first move of a list of two groups or
\* more, below a call whose list holds four groups, card-revealing moves
\* and moves of a row >= 1 among them
C20_Witness ==
  /\ pc = "loop"
  /\ Top.i >= 1
  /\ Top.i < Len(Top.moves)
  /\ Cardinality(GroupsOf(Len(stack))) >= 2
  /\ MoveGroup(Top.game, Top.moves[1]) # MoveGroup(Top.game, NextMove)
  /\ \E k \in 1 .. (Len(stack) - 1) :
       /\ Cardinality(GroupsOf(k)) >= 4
       /\ {3, 6} \subseteq GroupsOf(k)

\* the number of face-down cards under the source column of a move
SourceFaceDown(g, move) == Len(g.tableau[Extra(move, 0)].faceDown)

\* some column of the game has an empty face-up stack
HasEmptyFaceUp(g) == \E c \in Columns : g.tableau[c].faceUp = <<>>

\* a list of card-revealing moves is in the order of the claim
RevealingInOrder(g, moves) ==
  \A i \in 1 .. Len(moves), j \in 1 .. Len(moves) :
    i < j =>
      LET lhs == SourceFaceDown(g, moves[i])
          rhs == SourceFaceDown(g, moves[j]) IN
        /\ HasEmptyFaceUp(g) => lhs >= rhs
        /\ ~HasEmptyFaceUp(g) => lhs <= rhs
        /\ lhs = rhs => Extra(moves[i], 0) <= Extra(moves[j], 0)

\* the card-revealing moves in the list of a call of the search
RevealingOf(frame) ==
  LET revealing(move) == MoveGroup(frame.game, move) = 3 IN
    SelectSeq(frame.moves, revealing)

\* a call of the search enters its loop with the card-revealing moves of
\* its list in the order of the claim
C21_Step ==
  Len(stack') > Len(stack) =>
    RevealingInOrder(stack'[Len(stack')].game, RevealingOf(stack'[Len(stack')]))

\* C21: the card-revealing moves of a list are ordered by the face-down
\* count of their source column, descending when some column has an empty
\* face-up stack and ascending when none has; moves from sources of equal
\* counts are ordered by ascending source column.
C21_RevealingOrder == [][C21_Step]_vars

\* a column has an empty face-up stack and the list of the call holds
\* card-revealing moves from sources of different face-down counts
C21_Witness ==
  /\ pc = "loop"
  /\ HasEmptyFaceUp(Top.game)
  /\ LET moves == RevealingOf(Top) IN
       \E i \in 1 .. Len(moves), j \in 1 .. Len(moves) :
         SourceFaceDown(Top.game, moves[i]) > SourceFaceDown(Top.game, moves[j])

(***************************************************************************)
(* A caller plays a deal whose columns empty fast and show Kings and       *)
(* Queens: the states with the longest move lists                          *)
(***************************************************************************)
KingsInputs == {Input(DeckKings, 3, DEFAULT_TIMEOUT, {DefaultSizes})}

InitKings ==
  /\ input \in KingsInputs
  /\ game = NewSolitaire(input.deck, input.drawSize)
  /\ numApplied = 0
  /\ wasteOut = 0
  /\ lastMove = <<>>
  /\ FLAGS_state_cache_size = DEFAULT_STATE_CACHE_SIZE
  /\ FLAGS_move_cache_size = DEFAULT_MOVE_CACHE_SIZE
  /\ clock = 0
  /\ SolverInit(game, input.timeout)
  /\ _startTime = 0
  /\ seenCardStacks = {}
  /\ stack = <<>>
  /\ call = <<>>
  /\ ret = None
  /\ pc = "idle"
  /\ result = NoResult
  /\ deadlineHit = FALSE
  /\ winPath = <<>>
  /\ runs = 0
  /\ first = <<>>

SpecKings == InitKings /\ [][NextGame]_vars

\* C22: _getValidMoves emits at most MAX_VALID_MOVES moves, and the
\* card-revealing group and the group of _addTableauToTableauMoves at most
\* MAX_VALID_TABLEAU_MOVES each: every write into moves and newMoves is
\* inside the array.
C22_ListsFit ==
  /\ Len(_getValidMoves(game, <<>>)) <= MAX_VALID_MOVES
  /\ Len(RevealingCandidates(game)) <= MAX_VALID_TABLEAU_MOVES
  /\ Len(NonRevealingMoves(game)) <= MAX_VALID_TABLEAU_MOVES

\* three columns are empty and each of the other four offers its face-up
\* stack to two or three columns: ten card-revealing moves
C22_Witness ==
  /\ Cardinality({c \in Columns : game.tableau[c].faceUp = <<>>}) = 3
  /\ Len(RevealingCandidates(game)) >= 10
  /\ Len(_getValidMoves(game, <<>>)) > Len(RevealingCandidates(game))

\* the face-up stack a TABLEAU_TO_TABLEAU move leaves on its source column:
\* the cards below the moved row, or the card turned over, or nothing
SourceStackAfter(g, move) ==
  LET column == g.tableau[Extra(move, 0)]
      row == Extra(move, 1) IN
    IF row > 0 THEN SubSeq(column.faceUp, 1, row)
    ELSE IF column.faceDown # <<>> THEN <<Last(column.faceDown)>>
    ELSE <<>>

\* the face-up stack the move leaves on its destination column
DestinationStackAfter(g, move) ==
  LET column == g.tableau[Extra(move, 0)] IN
    g.tableau[Extra(move, 2)].faceUp
      \o SubSeq(column.faceUp, Extra(move, 1) + 1, Len(column.faceUp))

\* the loop goes on to the next move without a call of _solveImpl
BranchPruned ==
  /\ pc' = "loop"
  /\ stack' = [stack EXCEPT ![Len(stack)].i = @ + 1]
  /\ seenCardStacks' = seenCardStacks
  /\ _stateCache' = _stateCache

\* _solveImpl is called on the game after the move, with these stacks added
\* to the set (or the model's depth bound is hit)
BranchRecurses(g, move, added) ==
  \/ /\ pc' = "call"
     /\ call'[1].game = apply(g, move)
     /\ seenCardStacks' = seenCardStacks \cup added
  \/ /\ pc' = "overflow"
     /\ Len(stack) >= MaxDepth

C23_Step ==
  /\ (pc = "loop" /\ Top.i < Len(Top.moves)) =>
       LET move == Top.moves[Top.i + 1]
           src == SourceStackAfter(Top.game, move)
           dst == DestinationStackAfter(Top.game, move) IN
         IF move.type = TABLEAU_TO_TABLEAU
           THEN IF src \in seenCardStacks /\ dst \in seenCardStacks
                  THEN BranchPruned
                  ELSE BranchRecurses(Top.game, move, {src, dst})
           ELSE IF FlipPruned(Top.game, move, Top.canFlipDeck)
                  THEN BranchPruned
                  ELSE BranchRecurses(Top.game, move, {})
  /\ (pc = "ret" /\ stack # <<>>
        /\ Top.moves[Top.i + 1].type # TABLEAU_TO_TABLEAU) =>
       seenCardStacks' = seenCardStacks

\* C23: a TABLEAU_TO_TABLEAU move is given up by the repeated-stack guard
\* exactly when the face-up stacks it leaves on its source and on its
\* destination (after the card below is turned over) are both in
\* seenCardStacks; otherwise _solveImpl is called with both stacks in the
\* set.  A move of another kind leaves the set as it is, before the call and
\* after it, and whether it is tried does not depend on the set.
C23_StackGuard == [][C23_Step]_vars

\* the move just tried was given up by the guard, under a call that was made
\* with one of its two stacks already in the set
C23_Witness ==
  /\ pc = "loop"
  /\ Top.i >= 1
  /\ LET move == Top.moves[Top.i] IN
       /\ move.type = TABLEAU_TO_TABLEAU
       /\ SourceStackAfter(Top.game, move) \in seenCardStacks
       /\ DestinationStackAfter(Top.game, move) \in seenCardStacks
  /\ \E k \in 1 .. Len(stack) - 1 :
       /\ stack[k].newStacks # <<>>
       /\ stack[k].newStacks[1] \in stack[k].seenOnEntry
            \/ stack[k].newStacks[2] \in stack[k].seenOnEntry

\* the fingerprint of the state a call of _solveImpl is made on
Fingerprint(args) == _getGameCacheStr(args.game, args.canFlipDeck)

CacheKeys(cache) == {cache[i].key : i \in 1 .. Len(cache)}

\* the state cache has taken no more entries than it holds
NothingEvicted ==
  FLAGS_state_cache_size = 0 \/ _numCalls <= FLAGS_state_cache_size

\* each state expanded so far has an entry of its own
C24_State == NothingEvicted => Len(_stateCache) = _numCalls

C24_Step ==
  (pc = "call" /\ pc' # "call" /\ NothingEvicted') =>
    LET key == Fingerprint(call[1])
        inTime == clock - _startTime < _timeout IN
      /\ (inTime /\ ~isWon(call[1].game) /\ key \in CacheKeys(_stateCache)) =>
           /\ pc' = "ret"
           /\ ret' = None
           /\ stack' = stack
           /\ _numCalls' = _numCalls
           /\ _tableauMoveCache' = _tableauMoveCache
           /\ CacheKeys(_stateCache') = CacheKeys(_stateCache)
      /\ stack' # stack =>
           /\ stack' = Append(stack, stack'[Len(stack')])
           /\ stack'[Len(stack')].game = call[1].game
           /\ stack'[Len(stack')].canFlipDeck = call[1].canFlipDeck
           /\ _numCalls' = _numCalls + 1
           /\ key \notin CacheKeys(_stateCache)
           /\ CacheKeys(_stateCache') = CacheKeys(_stateCache) \cup {key}
           /\ stack'[Len(stack')].gameCacheStr = key
           /\ \A k \in 1 .. Len(stack) : stack[k].gameCacheStr # key

\* C24: as long as the state cache has evicted nothing, a call of _solveImpl
\* (in time, on a game not won) whose fingerprint is in the cache returns
\* none and leaves the frames, the call counter and the move cache as they
\* are; a call that goes on to its loop has a fingerprint that is new to the
\* cache and differs from that of every frame on the path, and the cache has
\* one entry per expanded state.
C24_NoFingerprintTwice == []C24_State /\ [][C24_Step]_vars

\* the state after the move just applied has the fingerprint of a frame of
\* the path, and the call made on it has returned none before the deadline
C24_Witness ==
  /\ pc = "ret"
  /\ ~ret.some
  /\ ~deadlineHit
  /\ stack # <<>>
  /\ NothingEvicted
  /\ LET move == Top.moves[Top.i + 1]
         key == _getGameCacheStr(apply(Top.game, move),
                                 NextCanFlipDeck(Top.game, move, Top.canFlipDeck)) IN
       \E k \in 1 .. Len(stack) : stack[k].gameCacheStr = key

\* what the claim says of a DRAW that takes game g to game g2
DrawEffect(g, g2) ==
  /\ g2.wasteSize = IF g.wasteSize = g.handSize
                      THEN Min(g.drawSize, g.handSize)
                      ELSE Min(g.wasteSize + g.drawSize, g.handSize)
  /\ HandCards(g2) = HandCards(g)
  /\ g2.handSize = g.handSize
  /\ g2.foundation = g.foundation
  /\ g2.tableau = g.tableau

C25_Step ==
  /\ (numApplied' = numApplied + 1 /\ lastMove'[1].type = DRAW) =>
       DrawEffect(game, game')
  /\ (pc = "loop" /\ pc' = "call" /\ NextMove.type = DRAW) =>
       DrawEffect(Top.game, call'[1].game)

\* C25: a valid DRAW, applied by the caller or by the search, sets wasteSize
\* to min(drawSize, handSize) when the waste was the whole hand and to
\* min(wasteSize + drawSize, handSize) otherwise; the cards of the hand and
\* their order, handSize, the foundations and the tableau stay as they are.
C25_Draw == [][C25_Step]_vars

\* the search has applied a recycling DRAW, and on the path to it a DRAW that
\* was cut short by the end of the hand
C25_Witness ==
  /\ pc = "call"
  /\ stack # <<>>
  /\ NextMove.type = DRAW
  /\ Top.game.wasteSize = Top.game.handSize
  /\ call[1].game.wasteSize = Min(Top.game.drawSize, Top.game.handSize)
  /\ \E k \in 1 .. Len(stack) - 1 :
       /\ AppliedMove(k).type = DRAW
       /\ stack[k].game.wasteSize < stack[k].game.handSize
       /\ stack[k].game.wasteSize + stack[k].game.drawSize > stack[k].game.handSize
       /\ stack[k + 1].game.wasteSize = stack[k].game.handSize

\* the sequence without its element at 0-based position p
WithoutPosition(seq, p) == SubSeq(seq, 1, p) \o SubSeq(seq, p + 2, Len(seq))

\* column c of g2 is column c of g, or that column after exposure
SameOrExposed(g, g2, c) ==
  \/ g2.tableau[c] = g.tableau[c]
  \/ /\ g.tableau[c].faceUp = <<>>
     /\ g.tableau[c].faceDown # <<>>
     /\ g2.tableau[c].faceUp = <<Last(g.tableau[c].faceDown)>>
     /\ g2.tableau[c].faceDown = Front(g.tableau[c].faceDown)

\* what the claim says of a play from the waste that takes game g to game g2
WastePlayEffect(g, move, g2) ==
  LET p == g.handSize - g.wasteSize
      card == g.hand[p] IN
    /\ HandCards(g2) = WithoutPosition(HandCards(g), p)
    /\ g2.handSize = g.handSize - 1
    /\ g2.wasteSize = g.wasteSize - 1
    /\ move.type = WASTE_TO_FOUNDATION =>
         /\ g2.foundation = [g.foundation EXCEPT ![suit(card)] = rank(card)]
         /\ \A c \in Columns : SameOrExposed(g, g2, c)
    /\ move.type = WASTE_TO_TABLEAU =>
         /\ g2.foundation = g.foundation
         /\ g2.tableau[Extra(move, 0)].faceUp =
              Append(g.tableau[Extra(move, 0)].faceUp, card)
         /\ g2.tableau[Extra(move, 0)].faceDown =
              g.tableau[Extra(move, 0)].faceDown
         /\ \A c \in Columns \ {Extra(move, 0)} : SameOrExposed(g, g2, c)

IsWastePlay(move) == move.type \in {WASTE_TO_FOUNDATION, WASTE_TO_TABLEAU}

C26_Step ==
  /\ (numApplied' = numApplied + 1 /\ IsWastePlay(lastMove'[1])) =>
       WastePlayEffect(game, lastMove'[1], game')
  /\ (pc = "loop" /\ pc' = "call" /\ IsWastePlay(NextMove)) =>
       WastePlayEffect(Top.game, NextMove, call'[1].game)

\* C26: a valid WASTE_TO_FOUNDATION or WASTE_TO_TABLEAU, applied by the
\* caller or by the search, removes the card at position handSize -
\* wasteSize from the hand and keeps the other cards in their order, lowers
\* handSize and wasteSize by one, and puts that card on its foundation or at
\* the end of the destination's face-up stack; no other column changes,
\* except by exposure.
C26_WastePlay == [][C26_Step]_vars

\* the search has put a card from inside the hand on a column that had
\* face-up cards, with cards of the hand before it and after it, and on the
\* path to it a card of the waste went to a foundation
C26_Witness ==
  /\ pc = "call"
  /\ stack # <<>>
  /\ NextMove.type = WASTE_TO_TABLEAU
  /\ Top.game.wasteSize >= 2
  /\ Top.game.wasteSize < Top.game.handSize
  /\ Len(call[1].game.tableau[Extra(NextMove, 0)].faceUp) >= 2
  /\ \E k \in 1 .. Len(stack) - 1 :
       /\ AppliedMove(k).type = WASTE_TO_FOUNDATION
       /\ stack[k].game.wasteSize >= 2

\* what the claim says of a TABLEAU_TO_TABLEAU move that takes g to g2
TableauMoveEffect(g, move, g2) ==
  LET src == Extra(move, 0)
      row == Extra(move, 1)
      dst == Extra(move, 2)
      srcCol == g.tableau[src]
      dstCol == g.tableau[dst]
      moved == [k \in 1 .. Len(srcCol.faceUp) - row |-> srcCol.faceUp[row + k]] IN
    src # dst =>
      /\ g2.tableau[dst].faceUp = dstCol.faceUp \o moved
      /\ g2.tableau[dst].faceDown = dstCol.faceDown
      /\ IF row = 0 /\ srcCol.faceDown # <<>>
           THEN /\ g2.tableau[src].faceUp = <<Last(srcCol.faceDown)>>
                /\ g2.tableau[src].faceDown = Front(srcCol.faceDown)
           ELSE /\ g2.tableau[src].faceUp = SubSeq(srcCol.faceUp, 1, row)
                /\ g2.tableau[src].faceDown = srcCol.faceDown
      /\ \A c \in Columns \ {src, dst} : g2.tableau[c] = g.tableau[c]
      /\ HandCards(g2) = HandCards(g)
      /\ g2.handSize = g.handSize
      /\ g2.wasteSize = g.wasteSize
      /\ g2.foundation = g.foundation

C27_Step ==
  /\ (numApplied' = numApplied + 1 /\ lastMove'[1].type = TABLEAU_TO_TABLEAU) =>
       TableauMoveEffect(game, lastMove'[1], game')
  /\ (pc = "loop" /\ pc' = "call" /\ NextMove.type = TABLEAU_TO_TABLEAU) =>
       TableauMoveEffect(Top.game, NextMove, call'[1].game)

\* C27: a valid TABLEAU_TO_TABLEAU(src, row, dst) with src # dst, applied by
\* the caller or by the search, appends the cards of src's face-up stack
\* from row on to dst's face-up stack in their order and cuts src's face-up
\* stack to length row, turning over src's top face-down card when that
\* leaves it empty; the hand, wasteSize, the foundations, every other
\* face-down stack and every other column stay as they are.
C27_TableauMove == [][C27_Step]_vars

\* the search has moved a stack of several cards from row 1 or above, and on
\* the path to it a move from row 0 that turned a card over
C27_Witness ==
  /\ pc = "call"
  /\ stack # <<>>
  /\ NextMove.type = TABLEAU_TO_TABLEAU
  /\ Extra(NextMove, 1) >= 1
  /\ Len(Top.game.tableau[Extra(NextMove, 0)].faceUp) - Extra(NextMove, 1) >= 2
  /\ \E k \in 1 .. Len(stack) - 1 :
       /\ AppliedMove(k).type = TABLEAU_TO_TABLEAU
       /\ Extra(AppliedMove(k), 1) = 0
       /\ stack[k].game.tableau[Extra(AppliedMove(k), 0)].faceDown # <<>>

\* a caller plays the deal of the two games, without building a Solver
SpecPlay == InitTwin /\ [][NextGame]_vars

\* the game with the columns c and d exchanged
Swapped(g, c, d) ==
  [g EXCEPT !.tableau[c] = g.tableau[d], !.tableau[d] = g.tableau[c]]

\* the columns without face-down cards
Uncovered(g) == {c \in Columns : g.tableau[c].faceDown = <<>>}

\* C28: exchanging two columns that have no face-down cards (empty ones
\* included) leaves the bytes that _getGameCacheStr hashes, and with them
\* the fingerprint, as they are, for either value of canFlipDeck, and so
\* does every permutation of these columns, which is a product of such
\* exchanges; exchanging a column that has face-down cards with another
\* column changes the bytes, since its index is among them.
C28_UncoveredColumnsPermute ==
  \A cf \in BOOLEAN :
    LET key == GameCacheStr(game, cf) IN
      \A c \in Columns, d \in Columns :
        c < d =>
          IF c \in Uncovered(game) /\ d \in Uncovered(game)
            THEN GameCacheStr(Swapped(game, c, d), cf) = key
            ELSE GameCacheStr(Swapped(game, c, d), cf) # key

\* the caller has just moved a lone King from a column without face-down
\* cards to an empty column: the game and the game before the move differ by
\* the exchange of these two columns, and other columns have face-down cards
C28_Witness ==
  /\ lastMove # <<>>
  /\ lastMove[1].type = TABLEAU_TO_TABLEAU
  /\ Extra(lastMove[1], 1) = 0
  /\ LET src == Extra(lastMove[1], 0)
         dst == Extra(lastMove[1], 2) IN
       /\ src \in Uncovered(game)
       /\ dst \in Uncovered(game)
       /\ game.tableau[src].faceUp = <<>>
       /\ Len(game.tableau[dst].faceUp) = 1
       /\ GameCacheStr(Swapped(game, src, dst), FALSE) = GameCacheStr(game, FALSE)
  /\ Cardinality(Columns \ Uncovered(game)) >= 2

\* the waste sizes a game passes through when only DRAW is applied to it,
\* zero or more times: up to the end of the hand, and after the recycling
\* DRAW from the start of the hand again
DrawnWasteSizes(g) ==
  {g.wasteSize}
    \cup {Min(g.wasteSize + n * g.drawSize, g.handSize) : n \in 1 .. MAX_HAND_SIZE}
    \cup {Min(n * g.drawSize, g.handSize) : n \in 1 .. MAX_HAND_SIZE}

\* the cards of the talon that can be played after some number of DRAWs:
\* the tops of these wastes
AccessibleTalonCards(g) ==
  {g.hand[g.handSize - w] : w \in DrawnWasteSizes(g) \ {0}}

\* two frames hold the same state but for the position in the talon, and
\* the same cards of the talon are accessible from both
SameButTalonPosition(f1, f2) ==
  /\ f1.game.foundation = f2.game.foundation
  /\ f1.game.tableau = f2.game.tableau
  /\ f1.canFlipDeck = f2.canFlipDeck
  /\ HandCards(f1.game) = HandCards(f2.game)
  /\ f1.game.wasteSize # f2.game.wasteSize
  /\ AccessibleTalonCards(f1.game) = AccessibleTalonCards(f2.game)

\* C29: two states that are equal in foundation, tableau and canFlipDeck
\* and differ only in the position in the talon, with the same set of
\* accessible talon cards, have the same fingerprint (stated of the states
\* of a search path).
C29_SameAccessibleSameFingerprint ==
  \A j \in 1 .. Len(stack), k \in 1 .. Len(stack) :
    (j < k /\ SameButTalonPosition(stack[j], stack[k])) =>
      stack[j].gameCacheStr = stack[k].gameCacheStr

\* solve() is running
Solving == pc \in {"call", "loop", "ret"}

C30_Step ==
  (deadlineHit /\ Solving) =>
    /\ deadlineHit'
    /\ _stateCache' = _stateCache
    /\ _tableauMoveCache' = _tableauMoveCache
    /\ _numCalls' = _numCalls
    /\ Len(stack') <= Len(stack)
    /\ ~ret'.some
    /\ winPath' = winPath
    /\ result'.status # SOLVED
    /\ (pc = "call" /\ pc' # "call") =>
         /\ pc' = "ret"
         /\ ret' = None
         /\ stack' = stack

CutShort(m) ==
  LET frame == stack[1]
      move == frame.moves[m]
      g == apply(frame.game, move) IN
    /\ ~isWon(g)
    /\ ~CacheExists(_stateCache,
                    _getGameCacheStr(g, NextCanFlipDeck(frame.game, move,
                                                        frame.canFlipDeck)))

ColumnByColumn ==
  Flatten([k \in 1 .. TABLEAU_SIZE |->
             [j \in 1 .. k |-> [column |-> k - 1, row |-> j - 1]]])

\* the places in the order of the two loops of the constructor: row 0 over
\* the columns 0 .. 6, row 1 over the columns 1 .. 6, and so on
RowByRow ==
  Flatten([k \in 1 .. TABLEAU_SIZE |->
             [j \in 1 .. TABLEAU_SIZE - k + 1 |->
                [column |-> k + j - 2, row |-> k - 1]]])

\* the card of game g at a place: row column of a column is its face-up card
CardAt(g, place) ==
  IF place.row = place.column
    THEN g.tableau[place.column].faceUp[1]
    ELSE g.tableau[place.column].faceDown[place.row + 1]

\* the places of g, taken in this order, hold these cards in their order
DealtInOrder(g, places, cards) ==
  /\ \A c \in Columns :
       /\ Len(g.tableau[c].faceDown) = c
       /\ Len(g.tableau[c].faceUp) = 1
  /\ \A k \in 1 .. Len(places) : CardAt(g, places[k]) = cards[k]

\* the 28 cards behind the hand in the order of the deck, and the same cards
\* from the end of the deck backwards
TableauCardsForward(deck) ==
  [k \in 1 .. NUM_CARDS - MAX_HAND_SIZE |-> deck[MAX_HAND_SIZE + k - 1]]

TableauCardsBackward(deck) ==
  [k \in 1 .. NUM_CARDS - MAX_HAND_SIZE |-> deck[NUM_CARDS - k]]

\* C31 as stated: the constructor fills the tableau column by column in deck
\* order: for c = 0 .. 6 in turn the next c cards not yet dealt are column
\* c's face-down cards and the card after them is its face-up card (with the
\* cards taken from the deck in either direction).
C31_DealtColumnByColumn ==
  numApplied = 0 =>
    \/ DealtInOrder(game, ColumnByColumn, TableauCardsForward(input.deck))
    \/ DealtInOrder(game, ColumnByColumn, TableauCardsBackward(input.deck))

\* C31, amended: the constructor fills the tableau row by row with the cards
\* taken from the end of the deck backwards: for r = 0 .. 6 in turn the
\* columns r .. 6 get one card each, which is the face-up card of column r
\* and a face-down card of the columns after it.
C31_DealtRowByRow ==
  numApplied = 0 =>
    DealtInOrder(game, RowByRow, TableauCardsBackward(input.deck))

\* a game has been built from a shuffled deck: the second column's face-up
\* card is the eighth card from the end of the deck, the last column's is the
\* first card behind the hand
C31_Witness ==
  /\ numApplied = 0
  /\ input.deck = DeckPlay
  /\ game.tableau[1].faceDown = <<DeckPlay[NUM_CARDS - 2]>>
  /\ game.tableau[1].faceUp = <<DeckPlay[NUM_CARDS - 1 - TABLEAU_SIZE]>>
  /\ game.tableau[TABLEAU_SIZE - 1].faceUp = <<DeckPlay[MAX_HAND_SIZE]>>

(***************************************************************************)
(* The state cache in use: promotion on a hit, eviction of the least       *)
(* recently used entry, capacity.                                          *)
(***************************************************************************)
\* decks searched with state caches so small that entries are evicted
EvictInputs ==
  { Input(DeckCache, 3, DEFAULT_TIMEOUT, {<<3, 1>>}),
    Input(DeckDraws, 3, DEFAULT_TIMEOUT, {<<8, 1>>}) }

InitEvict ==
  /\ input \in EvictInputs
  /\ game = NewSolitaire(input.deck, input.drawSize)
  /\ numApplied = 0
  /\ wasteOut = 0
  /\ lastMove = <<>>
  /\ \E sz \in input.sizes :
       /\ FLAGS_state_cache_size = sz[1]
       /\ FLAGS_move_cache_size = sz[2]
  /\ clock = 0
  /\ SolverInit(game, input.timeout)
  /\ _startTime = 0
  /\ seenCardStacks = {}
  /\ stack = <<>>
  /\ call = <<>>
  /\ ret = None
  /\ pc = "idle"
  /\ result = NoResult
  /\ deadlineHit = FALSE
  /\ winPath = <<>>
  /\ runs = 0
  /\ first = <<>>

\* one run of solve()
NextSearch ==
  \/ Solve
  \/ SolveImpl
  \/ MaybeApplyMove
  \/ LoopEnd
  \/ Return
  \/ SolveReturn
  \/ Tick

SpecEvict == InitEvict /\ [][NextSearch]_vars

\* the keys of a cache, the least recently used first
CacheKeySeq(cache) == [p \in 1 .. Len(cache) |-> cache[p].key]

WithoutKey(keys, key) == SelectSeq(keys, LAMBDA k : k # key)

\* the call that was just made finds its fingerprint in the state cache
StateCacheHit ==
  /\ pc = "call"
  /\ clock - _startTime < _timeout
  /\ ~isWon(call[1].game)
  /\ CacheExists(_stateCache, Fingerprint(call[1]))

C32_State ==
  FLAGS_state_cache_size > 0 => Len(_stateCache) <= FLAGS_state_cache_size

C32_Step ==
  (pc = "call" /\ pc' # "call") =>
    LET before == CacheKeySeq(_stateCache)
        after == CacheKeySeq(_stateCache') IN
      /\ StateCacheHit =>
            LET key == Fingerprint(call[1]) IN
              after = Append(WithoutKey(before, key), key)
      /\ \A p \in 1 .. Len(before) :
            ~CacheExists(_stateCache', before[p]) =>
              /\ p = 1
              /\ Len(before) = FLAGS_state_cache_size
              /\ ~StateCacheHit
              /\ after = Append(Tail(before), after[Len(after)])

\* C32: a hit of the state cache in _solveImpl makes the fingerprint that
\* was hit the most recently used entry and leaves the other entries in
\* their order; an entry leaves the cache only as its least recently used
\* entry, when a new fingerprint is inserted into a full cache, so that the
\* fingerprint that was hit is evicted after every entry present at the hit;
\* and a cache with a capacity never holds more entries than its capacity.
C32_HitPromoted == []C32_State /\ [][C32_Step]_vars

\* the key of frame k of the search is in the state cache
FrameKeyCached(k) == CacheExists(_stateCache, stack[k].gameCacheStr)

\* a full state cache of a search that has evicted entries holds the
\* fingerprint of a call, promoted by a hit, while the fingerprint of a
\* call made later has been evicted
C32_Witness ==
  /\ pc = "loop"
  /\ stack # <<>>
  /\ FLAGS_state_cache_size > 0
  /\ Len(_stateCache) = FLAGS_state_cache_size
  /\ _numCalls > FLAGS_state_cache_size
  /\ \E a \in 1 .. Len(stack) : \E b \in a + 1 .. Len(stack) :
       /\ FrameKeyCached(a)
       /\ ~FrameKeyCached(b)
       /\ \A c \in 1 .. Len(stack) :
            c # a => stack[c].gameCacheStr # stack[a].gameCacheStr
(***************************************************************************)
(* Termination of solve() with a state cache that evicts nothing.  solve() *)
(* is sequential code that the process keeps executing: each of its steps  *)
(* that is enabled is eventually taken.  Time may or may not pass.         *)
(***************************************************************************)
InitLive ==
  /\ Init
  /\ FLAGS_state_cache_size = DEFAULT_STATE_CACHE_SIZE

\* _solveImpl from its entry to its loop or to its return, by its effect on
\* the position of the search: the step SolveImpl takes
Entered == pc = "call" /\ pc' \in {"loop", "ret"}

SearchStep ==
  \/ Solve
  \/ MaybeApplyMove
  \/ LoopEnd
  \/ Return
  \/ SolveReturn

SpecLive ==
  InitLive /\ [][NextSearch]_vars /\ WF_pc(Entered) /\ WF_vars(SearchStep)

\* the frames of the search have fingerprints that differ from one another
FramesDiffer ==
  \A a, b \in 1 .. Len(stack) :
    a # b => stack[a].gameCacheStr # stack[b].gameCacheStr

C33_State ==
  NothingEvicted =>
    /\ _numCalls = Cardinality(CacheKeys(_stateCache))
    /\ Len(stack) <= _numCalls
    /\ FramesDiffer
    /\ pc # "overflow"

\* C33: with a state cache that evicts nothing, the calls of _solveImpl that
\* were expanded are as many as the distinct fingerprints recorded, the
\* frames of a search path have distinct fingerprints and are no more than
\* those, and a run of solve() that has started returns a status, whether
\* or not the deadline is reached.
C33_Terminates == []C33_State /\ (Solving ~> pc = "done")

\* a search that went back over several branches has returned a status with
\* no time passed, the deadline not reached
C33_Witness ==
  /\ pc = "done"
  /\ NothingEvicted
  /\ ~deadlineHit
  /\ clock = _startTime
  /\ result.status = NO_SOLUTION
  /\ _numCalls >= 9
  /\ Cardinality(seenCardStacks) = 0
(***************************************************************************)
(* The earlier Solitaire: a hand and a waste, two vectors of cards with    *)
(* their tops at the back; a move carries a vector of extras.              *)
(***************************************************************************)
Reverse(seq) == [k \in 1 .. Len(seq) |-> seq[Len(seq) + 1 - k]]

NewSolitaireTwoStack(deck, drawSize) ==
  [drawSize   |-> drawSize,
   foundation |-> [s \in Suits |-> -1],
   hand       |-> [k \in 1 .. MAX_HAND_SIZE |-> deck[k - 1]],
   waste      |-> <<>>,
   tableau    |-> [column \in Columns |->
                    [faceDown |-> [row \in 1 .. column |->
                                     DealtCard(deck, row - 1, column)],
                     faceUp   |-> <<DealtCard(deck, column, column)>>]]]

\* srcCard onto column dstColIdx, the tail of the two to-tableau cases
FitsOnColumnTwoStack(g, srcCard, dstColIdx) ==
  LET column == g.tableau[dstColIdx] IN
    IF column.faceUp = <<>>
      THEN ~(rank(srcCard) # NUM_RANKS - 1)
      ELSE LET dstCard == Last(column.faceUp) IN
             ~(~areDifferentColors(srcCard, dstCard)
               \/ rank(srcCard) # rank(dstCard) - 1)

isValidTwoStack(g, move) ==
  CASE move.type = DRAW ->
         /\ move.extras = <<>>
         /\ ~(g.hand = <<>> /\ g.waste = <<>>)
    [] move.type = WASTE_TO_FOUNDATION ->
         /\ move.extras = <<>>
         /\ g.waste # <<>>
         /\ LET card == Last(g.waste) IN
              ~(rank(card) # g.foundation[suit(card)] + 1)
    [] move.type = WASTE_TO_TABLEAU ->
         /\ Len(move.extras) = 1
         /\ LET dstColIdx == move.extras[1] IN
              /\ ~(g.waste = <<>> \/ dstColIdx < 0 \/ dstColIdx >= TABLEAU_SIZE)
              /\ FitsOnColumnTwoStack(g, Last(g.waste), dstColIdx)
    [] move.type = TABLEAU_TO_FOUNDATION ->
         /\ Len(move.extras) = 1
         /\ LET srcColIdx == move.extras[1] IN
              /\ ~(srcColIdx < 0 \/ srcColIdx >= TABLEAU_SIZE)
              /\ g.tableau[srcColIdx].faceUp # <<>>
              /\ LET card == Last(g.tableau[srcColIdx].faceUp) IN
                   ~(rank(card) # g.foundation[suit(card)] + 1)
    [] move.type = TABLEAU_TO_TABLEAU ->
         /\ Len(move.extras) = 3
         /\ LET srcColIdx == move.extras[1]
                srcRowIdx == move.extras[2]
                dstColIdx == move.extras[3] IN
              /\ ~(srcColIdx < 0 \/ srcColIdx >= TABLEAU_SIZE)
              /\ ~(dstColIdx < 0 \/ dstColIdx >= TABLEAU_SIZE)
              /\ ~(srcRowIdx < 0
                   \/ srcRowIdx >= Len(g.tableau[srcColIdx].faceUp))
              /\ FitsOnColumnTwoStack(
                   g, g.tableau[srcColIdx].faceUp[srcRowIdx + 1], dstColIdx)
    [] OTHER -> FALSE

\* a faulty variant of applyDrawTwoStack: the waste goes back to the hand
\* without std::reverse
applyDrawTwoStackNoReverse(g) ==
  LET hand == IF g.hand = <<>> THEN g.waste ELSE g.hand
      waste == IF g.hand = <<>> THEN <<>> ELSE g.waste
      drawn == Min(g.drawSize, Len(hand)) IN
    [g EXCEPT
       !.hand = SubSeq(hand, 1, Len(hand) - drawn),
       !.waste = waste \o Reverse(SubSeq(hand, Len(hand) - drawn + 1, Len(hand)))]

\* case DRAW: the waste reversed becomes the hand when the hand is empty;
\* then up to drawSize cards go from the back of the hand to the back of the
\* waste, one at a time
applyDrawTwoStack(g) ==
  LET hand == IF g.hand = <<>> THEN Reverse(g.waste) ELSE g.hand
      waste == IF g.hand = <<>> THEN <<>> ELSE g.waste
      drawn == Min(g.drawSize, Len(hand)) IN
    [g EXCEPT
       !.hand = SubSeq(hand, 1, Len(hand) - drawn),
       !.waste = waste \o Reverse(SubSeq(hand, Len(hand) - drawn + 1, Len(hand)))]

applyCaseTwoStack(g, move) ==
  CASE move.type = DRAW -> applyDrawTwoStack(g)
    [] move.type = WASTE_TO_FOUNDATION ->
         LET card == Last(g.waste) IN
           [g EXCEPT !.foundation[suit(card)] = rank(card),
                        !.waste = Front(g.waste)]
    [] move.type = WASTE_TO_TABLEAU ->
         LET dstColIdx == move.extras[1]
             card == Last(g.waste) IN
           [g EXCEPT !.tableau[dstColIdx].faceUp = Append(@, card),
                        !.waste = Front(g.waste)]
    [] move.type = TABLEAU_TO_FOUNDATION ->
         LET srcColIdx == move.extras[1]
             card == Last(g.tableau[srcColIdx].faceUp) IN
           [g EXCEPT !.tableau[srcColIdx].faceUp = Front(@),
                        !.foundation[suit(card)] = rank(card)]
    [] move.type = TABLEAU_TO_TABLEAU ->
         \* insert() of a range of the vector it inserts into is undefined;
         \* isValid is false for srcColIdx = dstColIdx in every state the
         \* program reaches
         LET srcColIdx == move.extras[1]
             srcRowIdx == move.extras[2]
             dstColIdx == move.extras[3]
             srcFaceUp == g.tableau[srcColIdx].faceUp IN
           [g EXCEPT
              !.tableau[dstColIdx].faceUp =
                 @ \o SubSeq(srcFaceUp, srcRowIdx + 1, Len(srcFaceUp)),
              !.tableau[srcColIdx].faceUp = SubSeq(srcFaceUp, 1, srcRowIdx)]
    [] OTHER -> g

applyTwoStack(g, move) ==
  LET moved == applyCaseTwoStack(g, move) IN
    [moved EXCEPT !.tableau = [c \in Columns |-> exposeColumn(moved.tableau[c])]]

isWonTwoStack(g) ==
  /\ ~(g.hand # <<>> \/ g.waste # <<>>)
  /\ \A c \in Columns : ~(g.tableau[c].faceDown # <<>>)

(***************************************************************************)
(* The two games side by side                                              *)
(***************************************************************************)
\* the two-stack game that corresponds to a cursor-based game
TwoStack(g) ==
  [drawSize   |-> g.drawSize,
   foundation |-> g.foundation,
   hand       |-> SubSeq(HandCards(g), 1, g.handSize - g.wasteSize),
   waste      |-> Reverse(Waste(g)),
   tableau    |-> g.tableau]

\* the extras of a move as the vector a caller of the two-stack game passes
ExtrasCount(type) ==
  CASE type \in {DRAW, WASTE_TO_FOUNDATION} -> 0
    [] type \in {WASTE_TO_TABLEAU, TABLEAU_TO_FOUNDATION} -> 1
    [] OTHER -> NUM_MOVE_EXTRAS

TwoStackMove(move) ==
  [type |-> move.type, extras |-> SubSeq(move.extras, 1, ExtrasCount(move.type))]

\* C34: the cursor-based game and the two-stack game built from the same deck
\* and draw size correspond (the two-stack hand is the first handSize -
\* wasteSize cards of the cursor hand, the two-stack waste is the rest
\* reversed, the foundations and the tableau columns are equal); games that
\* correspond agree on isWon and on isValid of every move, and applying a
\* valid move to both gives games that correspond.
C34_GamesCorrespond ==
  LET twoStack == TwoStack(game) IN
    /\ numApplied = 0 =>
         twoStack = NewSolitaireTwoStack(input.deck, input.drawSize)
    /\ isWon(game) = isWonTwoStack(twoStack)
    /\ \A move \in ProbeMoves(game) :
         LET valid == isValid(game, move) IN
           /\ valid = isValidTwoStack(twoStack, TwoStackMove(move))
           /\ valid =>
                TwoStack(apply(game, move)) =
                  applyTwoStack(twoStack, TwoStackMove(move))

\* a card of the waste was played and the DRAW after it found the whole hand
\* on the waste: the two-stack game turned its waste over
C34_Witness ==
  /\ numApplied = 3
  /\ wasteOut = 1
  /\ lastMove = <<Move(DRAW, NoExtra, NoExtra, NoExtra)>>
  /\ game.handSize = MAX_HAND_SIZE - 1
  /\ TwoStack(game).hand = <<>>
  /\ TwoStack(game).waste = Reverse(HandCards(game))
  /\ isValid(game, Move(DRAW, NoExtra, NoExtra, NoExtra))
(***************************************************************************)
(* The arrays of a column: Card faceDown[TABLEAU_SIZE - 1] and             *)
(* Card faceUp[NUM_RANKS]                                                  *)
(***************************************************************************)
ColumnFits(column) ==
  /\ Len(column.faceUp) <= NUM_RANKS
  /\ Len(column.faceDown) <= TABLEAU_SIZE - 1

\* the indices of faceUp that apply writes in column c of game g when it
\* applies move: the place of the waste card, the places of the moved cards,
\* and index 0 for a card that is exposed
FaceUpWrites(g, move, c) ==
  LET size == Len(g.tableau[c].faceUp)
      after == applyCase(g, move).tableau[c] IN
    (IF move.type = WASTE_TO_TABLEAU /\ Extra(move, 0) = c THEN {size} ELSE {})
      \cup (IF move.type = TABLEAU_TO_TABLEAU /\ Extra(move, 2) = c
              THEN size .. (size + Len(g.tableau[Extra(move, 0)].faceUp)
                              - Extra(move, 1) - 1)
              ELSE {})
      \cup (IF Len(after.faceUp) = 0 /\ Len(after.faceDown) # 0 THEN {0} ELSE {})

\* C35: every game the program holds has at most 13 face-up and at most 6
\* face-down cards in each column, and the move the search is about to apply
\* writes inside the array faceUp of every column.
C35_ColumnsFit ==
  /\ \A g \in HeldGames : \A c \in Columns : ColumnFits(g.tableau[c])
  /\ (pc = "loop" /\ Top.i < Len(Top.moves) /\ isValid(Top.game, NextMove)) =>
       \A c \in Columns :
         \A index \in FaceUpWrites(Top.game, NextMove, c) : index < NUM_RANKS

\* the search has put a card or a run of cards on a column that now holds
\* eleven face-up cards or more
C35_Witness ==
  /\ pc = "call"
  /\ stack # <<>>
  /\ NextMove.type \in {TABLEAU_TO_TABLEAU, WASTE_TO_TABLEAU}
  /\ LET dstColIdx == IF NextMove.type = TABLEAU_TO_TABLEAU
                         THEN Extra(NextMove, 2) ELSE Extra(NextMove, 0) IN
       Len(call[1].game.tableau[dstColIdx].faceUp) >= NUM_RANKS - 2
(***************************************************************************)
(* The face-down cards of a column                                         *)
(***************************************************************************)
\* the face-down cards column c was dealt, the card dealt first at the bottom
DealtFaceDown(c) == NewSolitaire(input.deck, input.drawSize).tableau[c].faceDown

\* C36: in every game the program holds, the face-down cards of each column
\* are the bottom part of the face-down cards the column was dealt, so that
\* the index of a column and the number of its face-down cards determine
\* which cards they are.
C36_FaceDownIsDealtPrefix ==
  \A g \in HeldGames : \A c \in Columns :
    LET faceDown == g.tableau[c].faceDown IN
      /\ Len(faceDown) <= Len(DealtFaceDown(c))
      /\ faceDown = SubSeq(DealtFaceDown(c), 1, Len(faceDown))

\* the move the search has just applied turned over a face-down card of a
\* column that had lost one before and that keeps one
C36_Witness ==
  /\ pc = "call"
  /\ stack # <<>>
  /\ \E c \in Columns :
       LET before == Top.game.tableau[c].faceDown
           after == call[1].game.tableau[c].faceDown IN
         /\ Len(before) < Len(DealtFaceDown(c))
         /\ Len(after) = Len(before) - 1
         /\ Len(after) >= 1
(***************************************************************************)
(* TABLEAU_TO_TABLEAU with the source column as the destination            *)
(***************************************************************************)
\* the moves of cards of column c onto column c, every row a caller can name
OntoItself(g, c) == {Move(TABLEAU_TO_TABLEAU, c, row, c) : row \in ProbeRows(g, c)}

\* C37: in every game the program holds, isValid is false for every
\* TABLEAU_TO_TABLEAU move whose destination column is its source column.
C37_NotOntoItself ==
  \A g \in HeldGames : \A c \in Columns :
    \A move \in OntoItself(g, c) : ~isValid(g, move)

\* a game of the search with a face-up run of five cards or more, each row
\* of which passes the range test of isValid when moved onto its own column
C37_Witness ==
  /\ pc = "call"
  /\ \E c \in Columns :
       /\ Len(call[1].game.tableau[c].faceUp) >= 5
       /\ \A row \in 0 .. Len(call[1].game.tableau[c].faceUp) - 1 :
            /\ TableauToTableauInRange(call[1].game,
                                       Move(TABLEAU_TO_TABLEAU, c, row, c))
            /\ ~isValid(call[1].game, Move(TABLEAU_TO_TABLEAU, c, row, c))
(***************************************************************************)
(* The buffers of the two cache keys                                       *)
(***************************************************************************)
\* _getGameCacheStr: std::array<char, MAX_CACHE_STR_SIZE> cacheStr
MAX_CACHE_STR_SIZE == 128

\* _addTableauToTableauMoves: char cacheKey[MAX_CACHE_KEY_SIZE]
MAX_CACHE_KEY_SIZE == ((NUM_RANKS * 2) + 1) * TABLEAU_SIZE

\* C38: for every game the program holds and either value of canFlipDeck, the
\* byte string _getGameCacheStr assembles has at most 128 bytes and the key
\* _addTableauToTableauMoves assembles has at most (13 * 2 + 1) * 7 = 189
\* bytes.
C38_KeysFit ==
  \A g \in HeldGames :
    /\ \A canFlipDeck \in BOOLEAN :
         Len(GameCacheStr(g, canFlipDeck)) <= MAX_CACHE_STR_SIZE
    /\ Len(TableauCacheKey(g)) <= MAX_CACHE_KEY_SIZE

\* a game of the search whose byte string has 103 bytes or more, within 25
\* of the buffer's end, and whose key has 80 bytes or more
C38_Witness ==
  /\ pc = "call"
  /\ stack # <<>>
  /\ Len(GameCacheStr(call[1].game, call[1].canFlipDeck))
       >= MAX_CACHE_STR_SIZE - 25
  /\ Len(TableauCacheKey(call[1].game)) >= 80
====
